---- MODULE Spec2Model ----
(***************************************************************************)
(* A model of tsickle's CommonJS -> goog.module rewriting pass             *)
(* (src/src/googmodule.ts, commonJsToGoogmoduleTransformer).               *)
(*                                                                         *)
(* Syntax nodes are records whose field k is the node's ts.SyntaxKind and  *)
(* whose other fields carry the names they have in the TypeScript AST      *)
(* (expression, arguments, left, right, ...).  Reading a field a node does *)
(* not have yields Undefined, as it does in JavaScript, and reading a      *)
(* property of Undefined is a TypeError (the result "throw").              *)
(***************************************************************************)
EXTENDS Integers, Sequences, FiniteSets, TLC

VARIABLES
  host,                               \* GoogModuleProcessorHost flags
  transformer,                        \* which transformer the factory made
  sf,                                 \* the node handed to the transformer
  pc,                                 \* position of the transformer in one source file
  input,                              \* sf.statements visited so far
  stmts,                              \* the output statement list being built
  didRewriteDefaultExportsAssignment, \* googmodule.ts:329
  moduleVarCounter,                   \* googmodule.ts:331
  namespaceToModuleVarName,           \* googmodule.ts:347
  modulesManifest,                    \* calls made on the ModulesManifest, in order
  moduleVars,                         \* history: the names nextModuleVar returned, in order
  before,                             \* history: the closure variables before each visit
  finished                            \* history: the nodes transformed so far and their results

vars == <<host, transformer, sf, pc, input, stmts, didRewriteDefaultExportsAssignment,
          moduleVarCounter, namespaceToModuleVarName, modulesManifest, moduleVars,
          before, finished>>

\* The longest statement list of a source file.
MaxStmts == 2

-----------------------------------------------------------------------------
(* Syntax nodes *)

Undefined == [k |-> "undefined"]
Get(node, f) == IF f \in DOMAIN node THEN node[f] ELSE Undefined
IsUndefined(v) == v.k = "undefined"

Id(t) == [k |-> "Identifier", text |-> t]
Str(t) == [k |-> "StringLiteral", text |-> t]
Num(t) == [k |-> "NumericLiteral", text |-> t]
Void(e) == [k |-> "VoidExpression", expression |-> e]
TrueKeyword == [k |-> "TrueKeyword"]
Prop(e, n) == [k |-> "PropertyAccessExpression", expression |-> e, name |-> n]
Elem(e, a) == [k |-> "ElementAccessExpression", expression |-> e, argumentExpression |-> a]
Call(f, args) == [k |-> "CallExpression", expression |-> f, arguments |-> args]
Bin(l, op, r) == [k |-> "BinaryExpression", left |-> l, operatorToken |-> op, right |-> r]
CommaList(es) == [k |-> "CommaListExpression", elements |-> es]
PropAssign(n, init) == [k |-> "PropertyAssignment", name |-> n, initializer |-> init]
Obj(props) == [k |-> "ObjectLiteralExpression", properties |-> props]
Return(e) == [k |-> "ReturnStatement", expression |-> e]
Func(body) == [k |-> "FunctionExpression", body |-> body]

ExprStmt(e) == [k |-> "ExpressionStatement", expression |-> e]
VarDecl(n, init) == [k |-> "VariableDeclaration", name |-> n, initializer |-> init]
VarStmt(decls, flags) == [k |-> "VariableStatement", declarations |-> decls, flags |-> flags]
FuncDecl(n) == [k |-> "FunctionDeclaration", name |-> n]
NotEmittedStatement == [k |-> "NotEmittedStatement"]

(* An entry of the output list: the statement, what ts.setOriginalNode     *)
(* recorded for it ("statement": the input statement, "expression": an     *)
(* expression of it, "none"), whether it carries the input statement's     *)
(* text range, whether it is the input node itself, and (history) the      *)
(* position of the input statement being visited when it was pushed, 0     *)
(* for a header statement.                                                 *)
Out(s, orig, range, same, i) ==
  [stmt |-> s, original |-> orig, range |-> range, same |-> same, from |-> i]

\* statements.push(node): the input node itself.
PassThrough(node, i) == Out(node, "none", TRUE, TRUE, i)
\* ts.setOriginalNode(ts.setTextRange(s, original), original)
Rewritten(s, i) == Out(s, "statement", TRUE, FALSE, i)
\* transformer_util.createNotEmittedStatementWithComments(sf, original)
createNotEmittedStatementWithComments(i) == Out(NotEmittedStatement, "statement", TRUE, FALSE, i)

-----------------------------------------------------------------------------
(* The host and the module resolver *)

\* sf.fileName of the file being transformed.
FileName == sf.fileName

\* host.pathToModuleName(context, importPath): the dotted Closure name of a path.
pathToModuleName(context, importPath) ==
  CASE importPath = "/root/proj/m.ts" -> "proj.m"
    [] importPath = "/root/proj/n.ts" -> "proj.n"
    [] importPath = "/root/proj/s.js" -> "proj.s"
    [] importPath = "./a" -> "proj.a"
    [] importPath = "../proj/a" -> "proj.a"
    [] importPath = "./dir" -> "proj.dir"
    [] importPath = "/root/proj/dir/index.ts" -> "proj.dir.index"
    [] importPath = "tslib" -> "tslib"
    [] importPath = "google3/javascript/closure/goog" -> "google3.javascript.closure.goog"
    [] importPath = "../javascript/closure/goog" -> "google3.javascript.closure.goog"
    [] OTHER -> "unknown"

\* host.fileNameToModuleId(fileName)
fileNameToModuleId(fileName) ==
  CASE fileName = "/root/proj/m.ts" -> "proj/m.ts"
    [] fileName = "/root/proj/n.ts" -> "proj/n.ts"
    [] fileName = "/root/proj/s.js" -> "proj/s.js"
    [] OTHER -> "unknown"

\* ts.resolveModuleName(imported, pathOfImportingFile, ...).resolvedModule
tsResolveModuleName(imported) ==
  CASE imported = "./dir" -> [found |-> TRUE, resolvedFileName |-> "/root/proj/dir/index.ts", nodeModules |-> FALSE]
    [] imported = "tslib" -> [found |-> TRUE, resolvedFileName |-> "/root/node_modules/tslib/tslib.d.ts", nodeModules |-> TRUE]
    [] OTHER -> [found |-> FALSE, resolvedFileName |-> "", nodeModules |-> FALSE]

resolveModuleName(imported) ==
  LET resolved == tsResolveModuleName(imported) IN
  IF ~resolved.found THEN imported
  ELSE IF resolved.nodeModules THEN imported
  ELSE resolved.resolvedFileName

NullString == "<null>"

\* tsImport.match(/^goog:/) ? tsImport.substring('goog:'.length) : null
extractGoogNamespaceImport(tsImport) ==
  CASE tsImport = "goog:ns.b" -> "ns.b"
    [] tsImport = "goog:proj.a" -> "proj.a"
    [] tsImport = "goog:./dir" -> "./dir"
    [] tsImport = "goog:google3.javascript.closure.goog" -> "google3.javascript.closure.goog"
    [] OTHER -> NullString

\* Mutant: the namespace of a goog: import is mapped like a path.
importPathToGoogNamespaceMapped(h, tsImport) ==
  LET nsImport == extractGoogNamespaceImport(tsImport) IN
  pathToModuleName(FileName,
    IF h.convertIndexImportShorthand
    THEN resolveModuleName(IF nsImport # NullString THEN nsImport ELSE tsImport)
    ELSE IF nsImport # NullString THEN nsImport ELSE tsImport)

importPathToGoogNamespace(h, tsImport) ==
  LET nsImport == extractGoogNamespaceImport(tsImport) IN
  IF nsImport # NullString THEN nsImport
  ELSE pathToModuleName(FileName,
         IF h.convertIndexImportShorthand THEN resolveModuleName(tsImport) ELSE tsImport)

-----------------------------------------------------------------------------
(* Statement matchers *)

isPropertyAccess(node, parent, child) ==
  /\ node.k = "PropertyAccessExpression"
  /\ node.expression.k = "Identifier"
  /\ node.expression.text = parent
  /\ node.name = child

isUseStrict(node) ==
  /\ node.k = "ExpressionStatement"
  /\ node.expression.k = "StringLiteral"
  /\ node.expression.text = "use strict"

isEsModuleProperty(stmt) ==
  LET expr == stmt.expression IN
  /\ expr.k = "CallExpression"
  /\ isPropertyAccess(expr.expression, "Object", "defineProperty")
  /\ Len(expr.arguments) = 3
  /\ expr.arguments[1].k = "Identifier" /\ expr.arguments[1].text = "exports"
  /\ expr.arguments[2].k = "StringLiteral" /\ expr.arguments[2].text = "__esModule"
  /\ expr.arguments[3].k = "ObjectLiteralExpression"
  /\ Len(expr.arguments[3].properties) = 1
  /\ LET prop == expr.arguments[3].properties[1] IN
       /\ prop.k = "PropertyAssignment"
       /\ prop.name = "value"
       /\ prop.initializer.k = "TrueKeyword"

RECURSIVE checkExportsVoid0Assignment(_)
checkExportsVoid0Assignment(expr) ==
  IF expr.k # "BinaryExpression" THEN FALSE
  ELSE IF expr.operatorToken # "=" THEN FALSE
  ELSE IF expr.left.k # "PropertyAccessExpression" THEN FALSE
  ELSE IF expr.left.expression.k # "Identifier" THEN FALSE
  ELSE IF expr.left.expression.text # "exports" THEN FALSE
  ELSE IF expr.right.k = "BinaryExpression" THEN checkExportsVoid0Assignment(expr.right)
  ELSE IF expr.right.k # "VoidExpression" THEN FALSE
  ELSE IF expr.right.expression.k # "NumericLiteral" THEN FALSE
  ELSE expr.right.expression.text = "0"

Throw == [r |-> "throw"]
Null == [r |-> "null"]

\* The string argument of require('foo'), null, or the TypeError of reading a
\* property of undefined when `call` is not a call expression at all.
extractRequire(call) ==
  IF IsUndefined(call) THEN Throw
  ELSE IF IsUndefined(Get(call, "expression")) THEN Throw
  ELSE IF call.expression.k # "Identifier" THEN Null
  ELSE IF call.expression.text # "require" THEN Null
  ELSE IF "arguments" \notin DOMAIN call THEN Throw
  ELSE IF Len(call.arguments) # 1 THEN Null
  ELSE IF call.arguments[1].k # "StringLiteral" THEN Null
  ELSE [r |-> "url", text |-> call.arguments[1].text]

createGoogCall(methodName, literal) == Call(Prop(Id("goog"), methodName), <<literal>>)

-----------------------------------------------------------------------------
(* Rewriters.  Each returns [r |-> "null"] when the statement does not     *)
(* match, and otherwise the output entries it produces.                    *)

One(out) == [r |-> "stmts", outs |-> <<out>>]

\* Mutant: the operator of the assignment is not looked at.
rewriteModuleExportsAnyOperator(expr, i) ==
  IF expr.expression.k # "BinaryExpression" THEN Null
  ELSE IF ~isPropertyAccess(expr.expression.left, "module", "exports") THEN Null
  ELSE One(Rewritten(ExprStmt(Bin(Id("exports"), "=", expr.expression.right)), i))

rewriteModuleExportsAssignment(expr, i) ==
  IF expr.expression.k # "BinaryExpression" THEN Null
  ELSE IF expr.expression.operatorToken # "=" THEN Null
  ELSE IF ~isPropertyAccess(expr.expression.left, "module", "exports") THEN Null
  ELSE One(Rewritten(ExprStmt(Bin(Id("exports"), "=", expr.expression.right)), i))

isBinaryCommaExpression(expr) == expr.k = "BinaryExpression" /\ expr.operatorToken = ","
isCommaList(expr) == expr.k = "CommaListExpression"

RECURSIVE commaVisit(_, _)
RECURSIVE commaVisitAll(_, _)
\* Mutant: a part that is a require call is rewritten like a statement of its own.
commaVisitClassified(expr, i) ==
  IF isBinaryCommaExpression(expr) THEN commaVisit(expr.left, i) \o commaVisit(expr.right, i)
  ELSE IF isCommaList(expr) THEN commaVisitAll(expr.elements, i)
  ELSE IF expr.k = "CallExpression" /\ expr.expression = Id("require")
  THEN <<Out(ExprStmt(createGoogCall("require", expr.arguments[1])), "expression", FALSE, FALSE, i)>>
  ELSE <<Out(ExprStmt(expr), "expression", FALSE, FALSE, i)>>

commaVisit(expr, i) ==
  IF isBinaryCommaExpression(expr) THEN commaVisit(expr.left, i) \o commaVisit(expr.right, i)
  ELSE IF isCommaList(expr) THEN commaVisitAll(expr.elements, i)
  ELSE <<Out(ExprStmt(expr), "expression", FALSE, FALSE, i)>>
commaVisitAll(es, i) ==
  IF es = <<>> THEN <<>> ELSE commaVisit(Head(es), i) \o commaVisitAll(Tail(es), i)

\* Mutant: only the outermost comma operator is split.
rewriteCommaExpressionsOutermost(expr, i) ==
  IF isBinaryCommaExpression(expr)
  THEN [r |-> "stmts", outs |-> <<Out(ExprStmt(expr.left), "expression", FALSE, FALSE, i),
                                  Out(ExprStmt(expr.right), "expression", FALSE, FALSE, i)>>]
  ELSE IF isCommaList(expr)
  THEN [r |-> "stmts", outs |-> [j \in 1..Len(expr.elements) |->
                                   Out(ExprStmt(expr.elements[j]), "expression", FALSE, FALSE, i)]]
  ELSE Null

rewriteCommaExpressions(expr, i) ==
  IF ~isBinaryCommaExpression(expr) /\ ~isCommaList(expr) THEN Null
  ELSE [r |-> "stmts", outs |-> commaVisit(expr, i)]

\* Mutant: the counter is not part of the name.
nextModuleVarUnnumbered(counter) == "tsickle_module_" \o ToString(1) \o "_"

\* `tsickle_module_${moduleVarCounter++}_`
nextModuleVar(counter) == "tsickle_module_" \o ToString(counter) \o "_"

\* Mutant: the table is written on every load that binds an identifier.
registerModuleVarAlways(map, imp, existingImport, newIdent) ==
  IF ~IsUndefined(newIdent)
  THEN [ns \in DOMAIN map \cup {imp} |-> IF ns = imp THEN newIdent ELSE map[ns]]
  ELSE map

\* namespaceToModuleVarName.set(imp.text, newIdent), guarded as in the code.
registerModuleVar(map, imp, existingImport, newIdent) ==
  IF IsUndefined(existingImport) /\ ~IsUndefined(newIdent)
  THEN [ns \in DOMAIN map \cup {imp} |-> IF ns = imp THEN newIdent ELSE map[ns]]
  ELSE map

\* Mutant: a variable named goog is elided whatever it loads.
createGoogRequireElideByName(imp, existingImport, i, newIdent, map, h) ==
  [r |-> "stmts",
   outs |-> <<IF ~IsUndefined(newIdent) /\ newIdent.text = "goog"
              THEN createNotEmittedStatementWithComments(i)
              ELSE IF ~IsUndefined(newIdent)
              THEN Rewritten(VarStmt(<<VarDecl(newIdent,
                                               IF IsUndefined(existingImport)
                                               THEN createGoogCall("require", Str(imp))
                                               ELSE existingImport)>>,
                                     IF h.es5Mode THEN "None" ELSE "Const"), i)
              ELSE IF IsUndefined(existingImport)
              THEN Rewritten(ExprStmt(createGoogCall("require", Str(imp))), i)
              ELSE createNotEmittedStatementWithComments(i)>>,
   map |-> registerModuleVar(map, imp, existingImport, newIdent),
   refs |-> <<imp>>]

\* googmodule.ts:364-409, for the namespace imp and the identifier already
\* bound to it (Undefined when there is none).
createGoogRequire(imp, existingImport, i, newIdent, map, h) ==
  [r |-> "stmts",
   outs |-> <<IF ~IsUndefined(newIdent) /\ newIdent.text = "goog"
                 /\ imp = "google3.javascript.closure.goog"
              THEN createNotEmittedStatementWithComments(i)
              ELSE IF ~IsUndefined(newIdent)
              THEN Rewritten(VarStmt(<<VarDecl(newIdent,
                                               IF IsUndefined(existingImport)
                                               THEN createGoogCall("require", Str(imp))
                                               ELSE existingImport)>>,
                                     IF h.es5Mode THEN "None" ELSE "Const"), i)
              ELSE IF IsUndefined(existingImport)
              THEN Rewritten(ExprStmt(createGoogCall("require", Str(imp))), i)
              ELSE createNotEmittedStatementWithComments(i)>>,
   map |-> registerModuleVar(map, imp, existingImport, newIdent),
   refs |-> <<imp>>]

\* googmodule.ts:362-365
requireImportedUrl(importedUrl, i, newIdent, map, h) ==
  IF importedUrl.r = "throw" THEN [r |-> "throw", map |-> map, refs |-> <<>>]
  ELSE IF importedUrl.r = "null" \/ importedUrl.text = ""
  THEN [r |-> "null", map |-> map, refs |-> <<>>]
  ELSE createGoogRequire(importPathToGoogNamespace(h, importedUrl.text),
                         Get(map, importPathToGoogNamespace(h, importedUrl.text)),
                         i, newIdent, map, h)

\* The result also carries the alias table after the call and the namespaces
\* passed to modulesManifest.addReferencedModule.
maybeCreateGoogRequire(i, call, newIdent, map, h) ==
  requireImportedUrl(extractRequire(call), i, newIdent, map, h)

\* Mutant: the receiver of the call is not looked at.
maybeRewriteDeclareModuleIdAnyReceiver(i, call) ==
  IF call.expression.k # "PropertyAccessExpression" THEN Null
  ELSE IF call.expression.name # "declareModuleId" THEN Null
  ELSE IF Len(call.arguments) # 1 THEN Null
  ELSE IF call.arguments[1].k # "StringLiteral" THEN Null
  ELSE
    One(Rewritten(ExprStmt(Bin(
          Elem(Prop(Id("goog"), "loadedModules_"), Str(call.arguments[1].text)),
          "=",
          Obj(<<PropAssign("exports", Id("exports")),
                PropAssign("type", Prop(Prop(Id("goog"), "ModuleType"), "GOOG")),
                PropAssign("moduleId", Str(call.arguments[1].text))>>))), i))

maybeRewriteDeclareModuleId(i, call) ==
  IF call.expression.k # "PropertyAccessExpression" THEN Null
  ELSE IF call.expression.name # "declareModuleId" THEN Null
  ELSE IF call.expression.expression.k # "Identifier"
          \/ call.expression.expression.text # "goog" THEN Null
  ELSE IF Len(call.arguments) # 1 THEN Null
  ELSE IF call.arguments[1].k # "StringLiteral" THEN Null
  ELSE
    LET moduleId == call.arguments[1].text IN
    One(Rewritten(ExprStmt(Bin(
          Elem(Prop(Id("goog"), "loadedModules_"), Str(moduleId)),
          "=",
          Obj(<<PropAssign("exports", Id("exports")),
                PropAssign("type", Prop(Prop(Id("goog"), "ModuleType"), "GOOG")),
                PropAssign("moduleId", Str(moduleId))>>))), i))

maybeRewriteRequireTslib(stmt, i) ==
  IF stmt.k # "ExpressionStatement" THEN Null
  ELSE IF stmt.expression.k # "CallExpression" THEN Null
  ELSE IF stmt.expression.expression.k # "Identifier"
          \/ stmt.expression.expression.text # "require" THEN Null
  ELSE IF Len(stmt.expression.arguments) # 1 THEN One(PassThrough(stmt, i))
  ELSE IF stmt.expression.arguments[1].k # "StringLiteral"
          \/ stmt.expression.arguments[1].text # "tslib" THEN Null
  ELSE One(Rewritten(ExprStmt(createGoogCall("require", stmt.expression.arguments[1])), i))

\* Mutant: the export assignment is put before the binding it uses.
exportStarAsNsWithExportFirst(require, name, stmt, i, counter) ==
  [r |-> require.r,
   outs |-> IF require.r # "stmts" THEN <<>>
            ELSE <<Rewritten(ExprStmt(Bin(Prop(Id("exports"), stmt.expression.left.name),
                                          "=", Id(name))), i)>>
                 \o require.outs,
   counter |-> counter + 1, map |-> require.map, refs |-> require.refs, names |-> <<name>>]

\* googmodule.ts:520-530, with the result of maybeCreateGoogRequire.
exportStarAsNsWith(require, name, stmt, i, counter) ==
  [r |-> require.r,
   outs |-> IF require.r # "stmts" THEN <<>>
            ELSE require.outs \o
                 <<Rewritten(ExprStmt(Bin(Prop(Id("exports"), stmt.expression.left.name),
                                          "=", Id(name))), i)>>,
   counter |-> counter + 1, map |-> require.map, refs |-> require.refs, names |-> <<name>>]

\* Mutant: the name is made only once the call is known to be a require call.
maybeRewriteExportStarAsNsCountOnEmit(stmt, i, counter, map, h) ==
  IF \/ stmt.k # "ExpressionStatement"
     \/ stmt.expression.k # "BinaryExpression"
     \/ stmt.expression.operatorToken # "="
     \/ stmt.expression.left.k # "PropertyAccessExpression"
     \/ stmt.expression.left.expression.k # "Identifier"
     \/ stmt.expression.left.expression.text # "exports"
     \/ stmt.expression.right.k # "CallExpression"
     \/ extractRequire(stmt.expression.right) = Null
  THEN [r |-> "null", outs |-> <<>>, counter |-> counter, map |-> map,
        refs |-> <<>>, names |-> <<>>]
  ELSE exportStarAsNsWith(
         maybeCreateGoogRequire(i, stmt.expression.right, Id(nextModuleVar(counter)), map, h),
         nextModuleVar(counter), stmt, i, counter)

\* The result carries the counter and the alias table after the call: the
\* counter advances as soon as the right side is a call expression.
maybeRewriteExportStarAsNs(stmt, i, counter, map, h) ==
  IF \/ stmt.k # "ExpressionStatement"
     \/ stmt.expression.k # "BinaryExpression"
     \/ stmt.expression.operatorToken # "="
     \/ stmt.expression.left.k # "PropertyAccessExpression"
     \/ stmt.expression.left.expression.k # "Identifier"
     \/ stmt.expression.left.expression.text # "exports"
     \/ stmt.expression.right.k # "CallExpression"
  THEN [r |-> "null", outs |-> <<>>, counter |-> counter, map |-> map,
        refs |-> <<>>, names |-> <<>>]
  ELSE exportStarAsNsWith(
         maybeCreateGoogRequire(i, stmt.expression.right, Id(nextModuleVar(counter)), map, h),
         nextModuleVar(counter), stmt, i, counter)

\* objDefArg3.properties.find(findPropNamed(name))
findPropNamed(properties, name) ==
  LET hits == {j \in 1..Len(properties) :
                 properties[j].k = "PropertyAssignment" /\ properties[j].name = name}
  IN IF hits = {} THEN Undefined
     ELSE properties[CHOOSE j \in hits : \A j2 \in hits : j <= j2]

\* Mutant: the enumerable flag is not looked at.
rewriteObjectDefinePropertyAnyEnumerable(stmt, i) ==
  IF stmt.expression.k # "CallExpression" THEN Null
  ELSE LET callExpr == stmt.expression IN
  IF callExpr.expression.k # "PropertyAccessExpression" THEN Null
  ELSE IF callExpr.expression.expression.k # "Identifier" THEN Null
  ELSE IF callExpr.expression.expression.text # "Object" THEN Null
  ELSE IF callExpr.expression.name # "defineProperty" THEN Null
  ELSE IF Len(callExpr.arguments) # 3 THEN Null
  ELSE IF callExpr.arguments[1].k # "Identifier" THEN Null
  ELSE IF callExpr.arguments[1].text # "exports" THEN Null
  ELSE IF callExpr.arguments[2].k # "StringLiteral" THEN Null
  ELSE IF callExpr.arguments[3].k # "ObjectLiteralExpression" THEN Null
  ELSE
    LET getConfig == findPropNamed(callExpr.arguments[3].properties, "get") IN
    IF IsUndefined(getConfig) THEN Null
    ELSE IF getConfig.initializer.k # "FunctionExpression" THEN Null
    ELSE IF Len(getConfig.initializer.body) # 1 THEN Null
    ELSE IF getConfig.initializer.body[1].k # "ReturnStatement" THEN Null
    ELSE IF IsUndefined(getConfig.initializer.body[1].expression) THEN Null
    ELSE One(Rewritten(ExprStmt(Bin(Prop(Id("exports"), callExpr.arguments[2].text), "=",
                                    getConfig.initializer.body[1].expression)), i))

rewriteObjectDefinePropertyOnExports(stmt, i) ==
  IF stmt.expression.k # "CallExpression" THEN Null
  ELSE LET callExpr == stmt.expression IN
  IF callExpr.expression.k # "PropertyAccessExpression" THEN Null
  ELSE IF callExpr.expression.expression.k # "Identifier" THEN Null
  ELSE IF callExpr.expression.expression.text # "Object" THEN Null
  ELSE IF callExpr.expression.name # "defineProperty" THEN Null
  ELSE IF Len(callExpr.arguments) # 3 THEN Null
  ELSE IF callExpr.arguments[1].k # "Identifier" THEN Null
  ELSE IF callExpr.arguments[1].text # "exports" THEN Null
  ELSE IF callExpr.arguments[2].k # "StringLiteral" THEN Null
  ELSE IF callExpr.arguments[3].k # "ObjectLiteralExpression" THEN Null
  ELSE
    LET enumerableConfig == findPropNamed(callExpr.arguments[3].properties, "enumerable")
        getConfig == findPropNamed(callExpr.arguments[3].properties, "get")
    IN
    IF IsUndefined(enumerableConfig) THEN Null
    ELSE IF enumerableConfig.initializer.k # "TrueKeyword" THEN Null
    ELSE IF IsUndefined(getConfig) THEN Null
    ELSE IF getConfig.initializer.k # "FunctionExpression" THEN Null
    ELSE IF Len(getConfig.initializer.body) # 1 THEN Null
    ELSE IF getConfig.initializer.body[1].k # "ReturnStatement" THEN Null
    ELSE IF IsUndefined(getConfig.initializer.body[1].expression) THEN Null
    ELSE One(Rewritten(ExprStmt(Bin(Prop(Id("exports"), callExpr.arguments[2].text), "=",
                                    getConfig.initializer.body[1].expression)), i))

-----------------------------------------------------------------------------
(* visitTopLevelStatement.  The result is what one visit does: r is "ok"   *)
(* or "throw", outs the entries pushed onto the output, and did, counter,  *)
(* map the closure variables after the visit; refs are the namespaces      *)
(* handed to modulesManifest.addReferencedModule and names the names       *)
(* nextModuleVar returned.                                                 *)

Res(r, outs, did, counter, map, refs, names) ==
  [r |-> r, outs |-> outs, did |-> did, counter |-> counter, map |-> map,
   refs |-> refs, names |-> names]

\* googmodule.ts:746-758, with the result of maybeCreateGoogRequire.
visitRequireWith(require, isExportStar, newIdent, exprStmt, i, did, counter, map) ==
  IF require.r = "throw" THEN Res("throw", <<>>, did, counter, map, <<>>, <<>>)
  ELSE IF require.r = "null"
  THEN Res("ok", <<PassThrough(exprStmt, i)>>, did, counter, map, <<>>, <<>>)
  ELSE Res("ok",
           require.outs \o
             (IF isExportStar
              THEN <<Out(ExprStmt(Call(exprStmt.expression.expression,
                                       <<newIdent>> \o
                                       (IF Len(exprStmt.expression.arguments) > 1
                                        THEN <<exprStmt.expression.arguments[2]>>
                                        ELSE <<>>))),
                         "none", FALSE, FALSE, i)>>
              ELSE <<>>),
           did, counter, require.map, require.refs, <<>>)

\* googmodule.ts:731-745
visitRequireCall(isExportStar, exprStmt, i, did, counter, map, h) ==
  IF isExportStar
  THEN LET res == visitRequireWith(
                    maybeCreateGoogRequire(i,
                      IF Len(exprStmt.expression.arguments) >= 1
                      THEN exprStmt.expression.arguments[1] ELSE Undefined,
                      Id(nextModuleVar(counter)), map, h),
                    TRUE, Id(nextModuleVar(counter)), exprStmt, i, did, counter + 1, map)
       IN [res EXCEPT !.names = <<nextModuleVar(counter)>>]
  ELSE visitRequireWith(
         maybeCreateGoogRequire(i, exprStmt.expression, Undefined, map, h),
         FALSE, Undefined, exprStmt, i, did, counter, map)

\* googmodule.ts:711-758: goog.declareModuleId(...), require('foo'),
\* __exportStar(require('foo'), ...)
visitCallStatement(exprStmt, i, did, counter, map, h) ==
  IF maybeRewriteDeclareModuleId(i, exprStmt.expression).r = "stmts"
  THEN Res("ok", maybeRewriteDeclareModuleId(i, exprStmt.expression).outs,
           did, counter, map, <<>>, <<>>)
  ELSE visitRequireCall(
         /\ exprStmt.expression.expression.k = "Identifier"
         /\ exprStmt.expression.expression.text \in {"__exportStar", "__export"},
         exprStmt, i, did, counter, map, h)

\* googmodule.ts:692-759, with the result of maybeRewriteExportStarAsNs.
visitAfterExportStarAsNs(exportStarAsNs, exprStmt, i, did, map, h) ==
  IF exportStarAsNs.r = "stmts"
  THEN Res("ok", exportStarAsNs.outs, did, exportStarAsNs.counter, exportStarAsNs.map,
           exportStarAsNs.refs, exportStarAsNs.names)
  ELSE IF rewriteObjectDefinePropertyOnExports(exprStmt, i).r = "stmts"
  THEN Res("ok", rewriteObjectDefinePropertyOnExports(exprStmt, i).outs, did,
           exportStarAsNs.counter, map, <<>>, exportStarAsNs.names)
  ELSE IF exprStmt.expression.k # "CallExpression"
  THEN Res("ok", <<PassThrough(exprStmt, i)>>, did, exportStarAsNs.counter, map, <<>>,
           exportStarAsNs.names)
  ELSE visitCallStatement(exprStmt, i, did, exportStarAsNs.counter, map, h)

\* Mutant: the flag is not consulted.
isAnyDefaultExportsAssignment(did, expr) == checkExportsVoid0Assignment(expr)

\* googmodule.ts:666-667
isFirstDefaultExportsAssignment(did, expr) == ~did /\ checkExportsVoid0Assignment(expr)

\* Mutant: the markers are erased only ahead of the default-exports initializer.
visitExpressionStatementMarkersAhead(exprStmt, i, did, counter, map, h) ==
  IF ~did /\ (isUseStrict(exprStmt) \/ isEsModuleProperty(exprStmt))
  THEN Res("ok", <<createNotEmittedStatementWithComments(i)>>, did, counter, map, <<>>, <<>>)
  ELSE IF isFirstDefaultExportsAssignment(did, exprStmt.expression)
  THEN Res("ok", <<createNotEmittedStatementWithComments(i)>>, TRUE, counter, map, <<>>, <<>>)
  ELSE Res("ok", <<PassThrough(exprStmt, i)>>, did, counter, map, <<>>, <<>>)

\* googmodule.ts:655-759
visitExpressionStatement(exprStmt, i, did, counter, map, h) ==
  IF isUseStrict(exprStmt) \/ isEsModuleProperty(exprStmt)
  THEN Res("ok", <<createNotEmittedStatementWithComments(i)>>, did, counter, map, <<>>, <<>>)
  ELSE IF isFirstDefaultExportsAssignment(did, exprStmt.expression)
  THEN Res("ok", <<createNotEmittedStatementWithComments(i)>>, TRUE, counter, map, <<>>, <<>>)
  ELSE IF rewriteModuleExportsAssignment(exprStmt, i).r = "stmts"
  THEN Res("ok", rewriteModuleExportsAssignment(exprStmt, i).outs, did, counter, map,
           <<>>, <<>>)
  ELSE IF rewriteCommaExpressions(exprStmt.expression, i).r = "stmts"
  THEN Res("ok", rewriteCommaExpressions(exprStmt.expression, i).outs, did, counter, map,
           <<>>, <<>>)
  ELSE visitAfterExportStarAsNs(maybeRewriteExportStarAsNs(exprStmt, i, counter, map, h),
                                exprStmt, i, did, map, h)

\* googmodule.ts:772-775, with the result of maybeCreateGoogRequire.
visitVariableWith(require, varStmt, i, did, counter, map) ==
  IF require.r # "stmts"
  THEN Res("ok", <<PassThrough(varStmt, i)>>, did, counter, map, <<>>, <<>>)
  ELSE Res("ok", require.outs, did, counter, require.map, require.refs, <<>>)

\* googmodule.ts:760-776
visitVariableStatement(varStmt, i, did, counter, map, h) ==
  IF \/ Len(varStmt.declarations) # 1
     \/ varStmt.declarations[1].name.k # "Identifier"
     \/ IsUndefined(varStmt.declarations[1].initializer)
     \/ varStmt.declarations[1].initializer.k # "CallExpression"
  THEN Res("ok", <<PassThrough(varStmt, i)>>, did, counter, map, <<>>, <<>>)
  ELSE visitVariableWith(
         maybeCreateGoogRequire(i, varStmt.declarations[1].initializer,
                                varStmt.declarations[1].name, map, h),
         varStmt, i, did, counter, map)

\* Mutant: "use strict" is erased only as the first statement of the file.
visitTopLevelStatementPrologueOnly(node, i, did, counter, map, h) ==
  IF h.isJsTranspilation /\ maybeRewriteRequireTslib(node, i).r = "stmts"
  THEN Res("ok", maybeRewriteRequireTslib(node, i).outs, did, counter, map, <<>>, <<>>)
  ELSE IF node.k = "ExpressionStatement" /\ ~(i > 1 /\ isUseStrict(node))
  THEN visitExpressionStatement(node, i, did, counter, map, h)
  ELSE IF node.k = "VariableStatement"
  THEN visitVariableStatement(node, i, did, counter, map, h)
  ELSE Res("ok", <<PassThrough(node, i)>>, did, counter, map, <<>>, <<>>)

visitTopLevelStatement(node, i, did, counter, map, h) ==
  IF h.isJsTranspilation /\ maybeRewriteRequireTslib(node, i).r = "stmts"
  THEN Res("ok", maybeRewriteRequireTslib(node, i).outs, did, counter, map, <<>>, <<>>)
  ELSE IF node.k = "ExpressionStatement"
  THEN visitExpressionStatement(node, i, did, counter, map, h)
  ELSE IF node.k = "VariableStatement"
  THEN visitVariableStatement(node, i, did, counter, map, h)
  ELSE Res("ok", <<PassThrough(node, i)>>, did, counter, map, <<>>, <<>>)

-----------------------------------------------------------------------------
(* The header *)

HeaderOut(s) == Out(s, "none", FALSE, FALSE, 0)

googModuleStmt == ExprStmt(createGoogCall("module", Str(pathToModuleName("", FileName))))

modAssignStmt ==
  VarStmt(<<VarDecl(Id("module"),
                    Bin(Id("module"), "||",
                        Obj(<<PropAssign("id", Str(fileNameToModuleId(FileName)))>>)))>>,
          "None")

\* host.pathToModuleName(sf.fileName, resolveModuleName(host, sf.fileName, 'tslib'))
tslibModuleName == pathToModuleName(FileName, resolveModuleName("tslib"))

tslibImportStmt == ExprStmt(createGoogCall("require", Str(tslibModuleName)))

\* Mutant: the module-id polyfill is pushed before the goog.module call.
headerStmtsPolyfillFirst(map, h) ==
  <<HeaderOut(modAssignStmt), HeaderOut(googModuleStmt)>> \o
  (IF ~h.isJsTranspilation /\ tslibModuleName \notin DOMAIN map
   THEN <<HeaderOut(tslibImportStmt)>>
   ELSE <<>>)

\* googmodule.ts:793-843
headerStmts(map, h) ==
  <<HeaderOut(googModuleStmt), HeaderOut(modAssignStmt)>> \o
  (IF ~h.isJsTranspilation /\ tslibModuleName \notin DOMAIN map
   THEN <<HeaderOut(tslibImportStmt)>>
   ELSE <<>>)

\* stmts.findIndex(s => s.kind !== ts.SyntaxKind.NotEmittedStatement), 1-based; 0 for -1
insertionIdx(out) ==
  LET emitted == {j \in 1..Len(out) : out[j].stmt.k # "NotEmittedStatement"} IN
  IF emitted = {} THEN 0 ELSE CHOOSE j \in emitted : \A j2 \in emitted : j <= j2

\* Mutant: the two halves around the insertion point change places.
spliceHeaderSwapped(out, header) ==
  IF insertionIdx(out) = 0 THEN out \o header
  ELSE SubSeq(out, insertionIdx(out), Len(out)) \o header
       \o SubSeq(out, 1, insertionIdx(out) - 1)

\* googmodule.ts:846-851
spliceHeader(out, header) ==
  LET idx == insertionIdx(out) IN
  IF idx = 0 THEN out \o header
  ELSE SubSeq(out, 1, idx - 1) \o header \o SubSeq(out, idx, Len(out))

-----------------------------------------------------------------------------
(* Top-level statements a source file may hold *)

Exports(n) == Prop(Id("exports"), n)
Void0 == Void(Num("0"))
Require(p) == Call(Id("require"), <<Str(p)>>)

sUseStrict == ExprStmt(Str("use strict"))                          \* "use strict";
sVoid0 == ExprStmt(Bin(Exports("a"), "=", Bin(Exports("b"), "=", Void0)))
                                                                   \* exports.a = exports.b = void 0;
sModuleExports == ExprStmt(Bin(Prop(Id("module"), "exports"), "=", Id("X")))
                                                                   \* module.exports = X;
sExportsAssign == ExprStmt(Bin(Id("exports"), "=", Id("X")))       \* exports = X;
sExportNs == ExprStmt(Bin(Exports("ns"), "=", Require("../proj/a")))
                                                                   \* exports.ns = require('../proj/a');
sExportCall == ExprStmt(Bin(Exports("n"), "=", Call(Id("f"), <<>>)))
                                                                   \* exports.n = f();
sGetterNoEnum ==                                                   \* Object.defineProperty(exports, "a",
  ExprStmt(Call(Prop(Id("Object"), "defineProperty"),              \*   {get: function () { return x.a; }});
                <<Id("exports"), Str("a"),
                  Obj(<<PropAssign("get", Func(<<Return(Prop(Id("x"), "a"))>>))>>)>>))
sRequireA == ExprStmt(Require("./a"))                              \* require('./a');
sRequireTslib == ExprStmt(Require("tslib"))                        \* require('tslib');
sVarA == VarStmt(<<VarDecl(Id("a_1"), Require("./a"))>>, "None")   \* var a_1 = require('./a');
sVarTslib == VarStmt(<<VarDecl(Id("tslib_1"), Require("tslib"))>>, "None")
                                                                   \* var tslib_1 = require('tslib');
sExportStarA == ExprStmt(Call(Id("__exportStar"), <<Require("./a"), Id("exports")>>))
                                                                   \* __exportStar(require('./a'), exports);
sExportStarIdent == ExprStmt(Call(Id("__exportStar"), <<Id("x"), Id("exports")>>))
                                                                   \* __exportStar(x, exports);
sExportStarCall == ExprStmt(Call(Id("__exportStar"), <<Call(Id("f"), <<>>), Id("exports")>>))
                                                                   \* __exportStar(f(), exports);
sExportEmpty == ExprStmt(Call(Id("__export"), <<>>))               \* __export();
sEsModule ==                                                       \* Object.defineProperty(exports,
  ExprStmt(Call(Prop(Id("Object"), "defineProperty"),              \*   "__esModule", { value: true });
                <<Id("exports"), Str("__esModule"),
                  Obj(<<PropAssign("value", TrueKeyword)>>)>>))
sComma == ExprStmt(Bin(Bin(Exports("a"), "=", Num("1")), ",", Bin(Exports("b"), "=", Num("2"))))
                                                                   \* exports.a = 1, exports.b = 2;
sGetter ==                                                         \* Object.defineProperty(exports, "a",
  ExprStmt(Call(Prop(Id("Object"), "defineProperty"),              \*   {enumerable: true,
                <<Id("exports"), Str("a"),                         \*    get: function () { return x.a; }});
                  Obj(<<PropAssign("enumerable", TrueKeyword),
                        PropAssign("get", Func(<<Return(Prop(Id("x"), "a"))>>))>>)>>))
sDeclareModuleId == ExprStmt(Call(Prop(Id("goog"), "declareModuleId"), <<Str("my.id")>>))
                                                                   \* goog.declareModuleId('my.id');
sVarGoog == VarStmt(<<VarDecl(Id("goog"), Require("google3/javascript/closure/goog"))>>, "None")
                                                 \* var goog = require('google3/javascript/closure/goog');
sVarDir == VarStmt(<<VarDecl(Id("dir_1"), Require("./dir"))>>, "None")
                                                                   \* var dir_1 = require('./dir');
sVarGoogNs == VarStmt(<<VarDecl(Id("goog_a_1"), Require("goog:proj.a"))>>, "None")
                                                                   \* var goog_a_1 = require('goog:proj.a');
sFuncDecl == FuncDecl("f")                                         \* function f() {}
sNotEmitted == NotEmittedStatement                                 \* a leading comment

Statements ==
  {sUseStrict, sVoid0, sModuleExports, sExportsAssign, sExportNs, sExportCall,
   sGetterNoEnum, sRequireA, sRequireTslib, sVarA, sVarTslib, sExportStarA,
   sExportStarIdent, sExportStarCall, sExportEmpty, sEsModule, sComma, sGetter,
   sDeclareModuleId, sVarGoog, sVarDir, sVarGoogNs, sFuncDecl, sNotEmitted}

-----------------------------------------------------------------------------
(* The transformer on one source file *)

Hosts == [isJsTranspilation : BOOLEAN, es5Mode : BOOLEAN, convertIndexImportShorthand : BOOLEAN]

\* A source file that is syntactically a module, a script, and a bundle.
SourceFile(fileName, externalModuleIndicator) ==
  [kind |-> "SourceFile", fileName |-> fileName,
   externalModuleIndicator |-> externalModuleIndicator]
Bundle == [kind |-> "Bundle"]

\* Boolean(sourceFile.externalModuleIndicator)
isModule(sourceFile) == sourceFile.externalModuleIndicator

\* The closure variables of one call of the transformer, as declared at
\* googmodule.ts:329-347, and the empty output list.
FreshFile ==
  /\ pc = "start"
  /\ input = <<>>
  /\ stmts = <<>>
  /\ didRewriteDefaultExportsAssignment = FALSE
  /\ moduleVarCounter = 1
  /\ namespaceToModuleVarName = <<>>
  /\ moduleVars = <<>>
  /\ before = <<>>

Init ==
  /\ host \in Hosts
  /\ transformer = "commonJsToGoogmodule"
  /\ sf = SourceFile("/root/proj/m.ts", TRUE)
  /\ finished = <<>>
  /\ pc = "start"
  /\ input = <<>>
  /\ stmts = <<>>
  /\ didRewriteDefaultExportsAssignment = FALSE
  /\ moduleVarCounter = 1
  /\ namespaceToModuleVarName = <<>>
  /\ modulesManifest = <<>>
  /\ moduleVars = <<>>
  /\ before = <<>>

\* Mutant: a script is converted like a module.
BeginScriptsToo ==
  /\ transformer = "commonJsToGoogmodule"
  /\ pc = "start"
  /\ sf.kind = "SourceFile"
  /\ pc' = "visit"
  /\ modulesManifest' = Append(modulesManifest,
       [op |-> "addModule", fileName |-> FileName, name |-> pathToModuleName("", FileName)])
  /\ UNCHANGED <<host, transformer, sf, input, stmts, didRewriteDefaultExportsAssignment,
                 moduleVarCounter, namespaceToModuleVarName, moduleVars, before, finished>>

\* googmodule.ts:312-323 and 783-785: a source file that is to be converted;
\* the module's own name is registered before any statement is visited.
Begin ==
  /\ transformer = "commonJsToGoogmodule"
  /\ pc = "start"
  /\ sf.kind = "SourceFile"
  /\ ~(host.isJsTranspilation /\ ~isModule(sf))
  /\ pc' = "visit"
  /\ modulesManifest' = Append(modulesManifest,
       [op |-> "addModule", fileName |-> FileName, name |-> pathToModuleName("", FileName)])
  /\ UNCHANGED <<host, transformer, sf, input, stmts, didRewriteDefaultExportsAssignment,
                 moduleVarCounter, namespaceToModuleVarName, moduleVars, before, finished>>

\* Mutant: the references replace what the manifest held.
addReferencedModulesReset(manifest, refs) ==
  IF refs = <<>> THEN manifest
  ELSE [j \in 1..Len(refs) |->
          [op |-> "addReferencedModule", fileName |-> FileName, name |-> refs[j]]]

addReferencedModules(manifest, refs) ==
  manifest \o [j \in 1..Len(refs) |->
                 [op |-> "addReferencedModule", fileName |-> FileName, name |-> refs[j]]]

\* One turn of the loop of googmodule.ts:789-791 on the next statement of the file.
Visit(node) ==
  /\ pc = "visit"
  /\ Len(input) < MaxStmts
  /\ LET res == visitTopLevelStatement(node, Len(input) + 1,
                                       didRewriteDefaultExportsAssignment,
                                       moduleVarCounter, namespaceToModuleVarName, host)
     IN /\ input' = Append(input, node)
        /\ pc' = IF res.r = "throw" THEN "threw" ELSE "visit"
        /\ stmts' = stmts \o res.outs
        /\ didRewriteDefaultExportsAssignment' = res.did
        /\ moduleVarCounter' = res.counter
        /\ namespaceToModuleVarName' = res.map
        /\ modulesManifest' = addReferencedModules(modulesManifest, res.refs)
        /\ moduleVars' = moduleVars \o res.names
  /\ before' = Append(before, [did |-> didRewriteDefaultExportsAssignment,
                               counter |-> moduleVarCounter,
                               map |-> namespaceToModuleVarName])
  /\ UNCHANGED <<host, transformer, sf, finished>>

VisitTopLevelStatement == \E node \in Statements : Visit(node)

\* googmodule.ts:793-853, once every statement of the file has been visited.
Header ==
  /\ pc = "visit"
  /\ pc' = "done"
  /\ stmts' = spliceHeader(stmts, headerStmts(namespaceToModuleVarName, host))
  /\ finished' = Append(finished, [sf |-> sf, result |-> "updated", input |-> input,
                                   stmts |-> stmts'])
  /\ UNCHANGED <<host, transformer, sf, input, didRewriteDefaultExportsAssignment,
                 moduleVarCounter, namespaceToModuleVarName, modulesManifest, moduleVars,
                 before>>

Next == Begin \/ VisitTopLevelStatement \/ Header

Spec == Init /\ [][Next]_vars

-----------------------------------------------------------------------------
(* Vocabulary of the properties *)

\* The entries of an output list pushed while input statement i was visited.
RECURSIVE EntriesFrom(_, _)
EntriesFrom(out, i) ==
  IF out = <<>> THEN <<>>
  ELSE IF Head(out).from = i THEN <<Head(out)>> \o EntriesFrom(Tail(out), i)
  ELSE EntriesFrom(Tail(out), i)

\* The output list without the header statements.
RECURSIVE WithoutHeader(_)
WithoutHeader(out) ==
  IF out = <<>> THEN <<>>
  ELSE IF Head(out).from = 0 THEN WithoutHeader(Tail(out))
  ELSE <<Head(out)>> \o WithoutHeader(Tail(out))

Finished == pc \in {"done", "threw"}

GoogRequireCall(ns) ==
  [k |-> "CallExpression",
   expression |-> [k |-> "PropertyAccessExpression",
                   expression |-> [k |-> "Identifier", text |-> "goog"], name |-> "require"],
   arguments |-> <<[k |-> "StringLiteral", text |-> ns]>>]

\* s is a goog.require(ns) registration: `goog.require(ns);` or `var x = goog.require(ns);`
IsRegistration(s, ns) ==
  \/ s.k = "ExpressionStatement" /\ s.expression = GoogRequireCall(ns)
  \/ /\ s.k = "VariableStatement"
     /\ \E d \in 1..Len(s.declarations) : s.declarations[d].initializer = GoogRequireCall(ns)

\* Where the output holds a registration of ns made from a statement of the file.
Registrations(out, ns) ==
  {j \in 1..Len(out) : out[j].from > 0 /\ IsRegistration(out[j].stmt, ns)}

\* Where the header holds a registration of ns.
HeaderRegistrations(out, ns) ==
  {j \in 1..Len(out) : out[j].from = 0 /\ IsRegistration(out[j].stmt, ns)}

\* The string p of an expression require('p'), NullString for any other expression.
RequireArg(e) ==
  IF /\ e.k = "CallExpression"
     /\ e.expression.k = "Identifier" /\ e.expression.text = "require"
     /\ Len(e.arguments) = 1
     /\ e.arguments[1].k = "StringLiteral"
  THEN e.arguments[1].text
  ELSE NullString

\* The specifier a statement loads in one of the four forms require(p),
\* var x = require(p), exports.n = require(p), __exportStar(require(p), ...).
LoadedSpecifier(node) ==
  IF node.k = "VariableStatement"
  THEN IF Len(node.declarations) = 1 /\ node.declarations[1].name.k = "Identifier"
       THEN RequireArg(node.declarations[1].initializer) ELSE NullString
  ELSE IF node.k # "ExpressionStatement" THEN NullString
  ELSE IF node.expression.k = "CallExpression"
  THEN IF RequireArg(node.expression) # NullString THEN RequireArg(node.expression)
       ELSE IF /\ node.expression.expression.k = "Identifier"
               /\ node.expression.expression.text \in {"__exportStar", "__export"}
               /\ Len(node.expression.arguments) >= 1
       THEN RequireArg(node.expression.arguments[1])
       ELSE NullString
  ELSE IF /\ node.expression.k = "BinaryExpression"
          /\ node.expression.operatorToken = "="
          /\ node.expression.left.k = "PropertyAccessExpression"
          /\ node.expression.left.expression.k = "Identifier"
          /\ node.expression.left.expression.text = "exports"
  THEN RequireArg(node.expression.right)
  ELSE NullString

\* The resolved namespace a statement loads, NullString when it loads none.
LoadedNs(node) ==
  IF LoadedSpecifier(node) = NullString THEN NullString
  ELSE importPathToGoogNamespace(host, LoadedSpecifier(node))

Namespaces == {"proj.a", "tslib"}

Loaders(ns) == {i \in 1..Len(input) : LoadedNs(input[i]) = ns}

\* Statements of the pool that only nearly match an idiom: an export-star call
\* whose first argument is no require call, exports.n = f(), a getter
\* definition without enumerable: true.
NearMatches == {sExportStarIdent, sExportEmpty, sExportStarCall, sExportCall, sGetterNoEnum}

\* Statements of the pool that match no recognized idiom at all.
Unrecognized == NearMatches \cup {sExportsAssign, sFuncDecl, sNotEmitted}

-----------------------------------------------------------------------------
(* C1 - C10 *)

\* C1 (Dedup): when the file has been processed, every namespace loaded by
\* K >= 1 statements through require('...') (bare, var x =, exports.n =,
\* __exportStar(...)) has exactly one goog.require registration among the
\* statements made from them, and every other variable statement made from such a load is initialised
\* from the identifier bound by that registration.
C1_Dedup ==
  pc = "done" =>
    \A ns \in Namespaces :
      Loaders(ns) # {} =>
        /\ Cardinality(Registrations(stmts, ns)) = 1
        /\ \A r \in Registrations(stmts, ns) :
             \A j \in 1..Len(stmts) :
               (/\ j # r
                /\ stmts[j].from \in Loaders(ns)
                /\ stmts[j].stmt.k = "VariableStatement")
               => /\ stmts[r].stmt.k = "VariableStatement"
                  /\ stmts[j].stmt.declarations[1].initializer
                       = stmts[r].stmt.declarations[1].name

\* C2 (Near-match pass-through): a visited statement that only nearly matches
\* an idiom never stops processing and is in the output exactly once, as the
\* unmodified input node.
C2_NearMatchPassThrough ==
  \A i \in 1..Len(input) :
    input[i] \in NearMatches =>
      /\ pc # "threw"
      /\ EntriesFrom(stmts, i) = <<[stmt |-> input[i], original |-> "none", range |-> TRUE,
                                    same |-> TRUE, from |-> i]>>

\* C3 (Order preservation): for two input statements that are not require
\* loads, everything the first produced stands before everything the second
\* produced, in the output list during the visit and after the header splice.
C3_OrderPreserved ==
  \A j1, j2 \in 1..Len(stmts) :
    (/\ stmts[j1].from > 0 /\ stmts[j2].from > 0
     /\ LoadedSpecifier(input[stmts[j1].from]) = NullString
     /\ LoadedSpecifier(input[stmts[j2].from]) = NullString
     /\ stmts[j1].from < stmts[j2].from)
    => j1 < j2

\* Reached: the header was spliced between the outputs of two statements that
\* are no require loads.
C3_Witness ==
  /\ pc = "done"
  /\ \E j \in 2..(Len(stmts) - 1) :
       /\ stmts[j].from = 0
       /\ stmts[1].from = 1 /\ LoadedSpecifier(input[1]) = NullString
       /\ stmts[Len(stmts)].from = 2 /\ LoadedSpecifier(input[2]) = NullString

\* C4 (Idempotence): a file none of whose statements matches a recognized
\* idiom is processed to an output that is the input list, same nodes in the
\* same order, plus the header statements.
C4_Idempotence ==
  (Finished /\ \A i \in 1..Len(input) : input[i] \in Unrecognized) =>
    /\ pc = "done"
    /\ WithoutHeader(stmts) = [i \in 1..Len(input) |->
         [stmt |-> input[i], original |-> "none", range |-> TRUE, same |-> TRUE, from |-> i]]

\* C5 (Header position and order): in every output the header statements
\* are one contiguous block, goog.module(<name>) then the module-id polyfill
\* then at most the goog.require of tslib; only not-emitted placeholders stand
\* before goog.module; when nothing else is emitted the block is at the end.
ExpectedGoogModule ==
  [k |-> "ExpressionStatement",
   expression |->
     [k |-> "CallExpression",
      expression |-> [k |-> "PropertyAccessExpression",
                      expression |-> [k |-> "Identifier", text |-> "goog"], name |-> "module"],
      arguments |-> <<[k |-> "StringLiteral", text |-> pathToModuleName("", FileName)]>>]]

ExpectedModulePolyfill ==
  [k |-> "VariableStatement", flags |-> "None",
   declarations |->
     <<[k |-> "VariableDeclaration", name |-> [k |-> "Identifier", text |-> "module"],
        initializer |->
          [k |-> "BinaryExpression", left |-> [k |-> "Identifier", text |-> "module"],
           operatorToken |-> "||",
           right |-> [k |-> "ObjectLiteralExpression",
                      properties |-> <<[k |-> "PropertyAssignment", name |-> "id",
                                        initializer |-> [k |-> "StringLiteral",
                                                         text |-> fileNameToModuleId(FileName)]]>>]]]>>]

HeaderPositions == {j \in 1..Len(stmts) : stmts[j].from = 0}

C5_HeaderBlock ==
  pc = "done" =>
    \E first \in 1..Len(stmts), n \in {2, 3} :
      /\ HeaderPositions = first..(first + n - 1)
      /\ stmts[first].stmt = ExpectedGoogModule
      /\ stmts[first + 1].stmt = ExpectedModulePolyfill
      /\ n = 3 => stmts[first + 2].stmt = [k |-> "ExpressionStatement",
                                           expression |-> GoogRequireCall("tslib")]
      /\ \A j \in 1..(first - 1) : stmts[j].stmt.k = "NotEmittedStatement"
      /\ (\A j \in 1..Len(stmts) : j \notin HeaderPositions => stmts[j].stmt.k = "NotEmittedStatement")
           => first + n - 1 = Len(stmts)

\* Reached: a three-statement header after a leading placeholder and before an
\* emitted statement.
C5_Witness ==
  /\ pc = "done"
  /\ Len(stmts) = 5
  /\ stmts[1].stmt.k = "NotEmittedStatement"
  /\ HeaderPositions = {2, 3, 4}
  /\ stmts[5].stmt.k # "NotEmittedStatement"

\* C6 (Baseline dependency): outside JS-transpilation mode the header holds a
\* goog.require of tslib exactly when no statement of the file required tslib,
\* and the output never holds two goog.require calls of tslib; in
\* JS-transpilation mode the header holds none.
C6_BaselineDependency ==
  pc = "done" =>
    IF host.isJsTranspilation
    THEN HeaderRegistrations(stmts, "tslib") = {}
    ELSE /\ (HeaderRegistrations(stmts, "tslib") # {}) <=> (Loaders("tslib") = {})
         /\ Cardinality(HeaderRegistrations(stmts, "tslib") \cup Registrations(stmts, "tslib")) <= 1

\* C7 (Header defaulting): outside ES5 mode the header holds exactly one
\* `exports = {}` when no statement of the file reassigns exports (as
\* `exports = ...` or `module.exports = ...`), and none when one does.
ExportsInitialization ==
  [k |-> "ExpressionStatement",
   expression |-> [k |-> "BinaryExpression", left |-> [k |-> "Identifier", text |-> "exports"],
                   operatorToken |-> "=",
                   right |-> [k |-> "ObjectLiteralExpression", properties |-> <<>>]]]

IsExportsReassignment(node) ==
  /\ node.k = "ExpressionStatement"
  /\ node.expression.k = "BinaryExpression"
  /\ node.expression.operatorToken = "="
  /\ \/ node.expression.left.k = "Identifier" /\ node.expression.left.text = "exports"
     \/ /\ node.expression.left.k = "PropertyAccessExpression"
        /\ node.expression.left.expression.k = "Identifier"
        /\ node.expression.left.expression.text = "module"
        /\ node.expression.left.name = "exports"

C7_HeaderDefaulting ==
  (pc = "done" /\ ~host.es5Mode) =>
    Cardinality({j \in HeaderPositions : stmts[j].stmt = ExportsInitialization})
      = IF \E i \in 1..Len(input) : IsExportsReassignment(input[i]) THEN 0 ELSE 1

\* C8 (Alias table stability): no step overwrites or removes an entry of the
\* alias table, and a statement that loads a namespace already in the table
\* binds its variable to the identifier the table holds.
C8_AliasStable ==
  [][/\ \A ns \in DOMAIN namespaceToModuleVarName :
          /\ ns \in DOMAIN namespaceToModuleVarName'
          /\ namespaceToModuleVarName'[ns] = namespaceToModuleVarName[ns]
     /\ (/\ Len(input') = Len(input) + 1
         /\ LoadedNs(input'[Len(input')]) \in DOMAIN namespaceToModuleVarName)
        => \A j \in (Len(stmts) + 1)..Len(stmts') :
             stmts'[j].stmt.k = "VariableStatement"
             => stmts'[j].stmt.declarations[1].initializer
                  = namespaceToModuleVarName[LoadedNs(input'[Len(input')])]
    ]_vars

\* Reached: a namespace already in the table was loaded again and the new
\* variable was bound to the identifier of the table.
C8_Witness ==
  /\ "proj.a" \in DOMAIN namespaceToModuleVarName
  /\ Cardinality(Loaders("proj.a")) >= 2
  /\ \E j \in 1..Len(stmts) :
       /\ stmts[j].stmt.k = "VariableStatement"
       /\ stmts[j].stmt.declarations[1].initializer = namespaceToModuleVarName["proj.a"]

\* C9 (Synthetic identifier numbering): the synthetic identifiers made in one
\* file are tsickle_module_1_, tsickle_module_2_, ... in the order of their
\* making, no number twice, and they are declared in the output in that order.
SyntheticNumber(name) ==
  IF \E n \in 1..Len(moduleVars) : moduleVars[n] = name
  THEN CHOOSE n \in 1..Len(moduleVars) : moduleVars[n] = name
  ELSE 0

DeclaredNumber(j) ==
  IF stmts[j].stmt.k = "VariableStatement"
  THEN SyntheticNumber(stmts[j].stmt.declarations[1].name.text)
  ELSE 0

C9_Numbering ==
  /\ \A n \in 1..Len(moduleVars) : moduleVars[n] = "tsickle_module_" \o ToString(n) \o "_"
  /\ \A n1, n2 \in 1..Len(moduleVars) : n1 # n2 => moduleVars[n1] # moduleVars[n2]
  /\ \A j1, j2 \in 1..Len(stmts) :
       (j1 < j2 /\ DeclaredNumber(j1) > 0 /\ DeclaredNumber(j2) > 0)
       => DeclaredNumber(j1) < DeclaredNumber(j2)

\* Reached: two synthetic identifiers were made and both are declared in the
\* output.
C9_Witness ==
  /\ Len(moduleVars) >= 2
  /\ \E j1, j2 \in 1..Len(stmts) : DeclaredNumber(j1) = 1 /\ DeclaredNumber(j2) = 2

\* C10 (Default-exports initializer erased once): of the statements of the
\* form exports.a = ... = void 0 the first is replaced by one not-emitted
\* placeholder and each later one is in the output as the unmodified node.
DefaultExportsInitializers ==
  {i \in 1..Len(input) :
     input[i].k = "ExpressionStatement" /\ checkExportsVoid0Assignment(input[i].expression)}

C10_ErasedOnce ==
  \A i \in DefaultExportsInitializers :
    IF \A i2 \in DefaultExportsInitializers : i <= i2
    THEN /\ Len(EntriesFrom(stmts, i)) = 1
         /\ EntriesFrom(stmts, i)[1].stmt.k = "NotEmittedStatement"
    ELSE EntriesFrom(stmts, i) = <<[stmt |-> input[i], original |-> "none", range |-> TRUE,
                                    same |-> TRUE, from |-> i]>>

\* Reached: a file with two such statements has been processed.
C10_Witness ==
  /\ pc = "done"
  /\ Cardinality(DefaultExportsInitializers) >= 2

-----------------------------------------------------------------------------
(* Further statement shapes: comma expressions, getter definitions, loads  *)
(* of the Closure `goog` file and of goog: namespaces.                     *)

FalseKeyword == [k |-> "FalseKeyword"]
\* get() { ... } in an object literal
Method(n, body) == [k |-> "MethodDeclaration", name |-> n, body |-> body]
\* return;
ReturnNothing == [k |-> "ReturnStatement", expression |-> Undefined]

eA == Bin(Exports("a"), "=", Num("1"))                             \* exports.a = 1
eB == Bin(Exports("b"), "=", Num("2"))                             \* exports.b = 2
eC == Bin(Exports("c"), "=", Num("3"))                             \* exports.c = 3

\* Comma expressions of two and three leaves: as a binary tree nested to the
\* left and to the right, as a comma list, and as mixes of both.
CommaStatements ==
  {ExprStmt(Bin(eA, ",", eB)),                                     \* a, b
   ExprStmt(Bin(Bin(eA, ",", eB), ",", eC)),                       \* (a, b), c as a binary tree
   ExprStmt(Bin(eA, ",", Bin(eB, ",", eC))),                       \* a, (b, c) as a binary tree
   ExprStmt(CommaList(<<eA, eB, eC>>)),                            \* a, b, c as a comma list
   ExprStmt(CommaList(<<Bin(eA, ",", eB), eC>>)),                  \* a list holding a tree
   ExprStmt(Bin(eA, ",", CommaList(<<eB, eC>>)))}                  \* a tree holding a list

\* Object.defineProperty(exports, "a", config)
DefineExport(config) ==
  ExprStmt(Call(Prop(Id("Object"), "defineProperty"), <<Id("exports"), Str("a"), Obj(config)>>))

Xa == Prop(Id("x"), "a")                                           \* x.a

\* Object.defineProperty(exports, "a", {...}) with these descriptors:
GetterStatements ==
  {\* {enumerable: true, get: function () { return x.a; }}
   DefineExport(<<PropAssign("enumerable", TrueKeyword), PropAssign("get", Func(<<Return(Xa)>>))>>),
   \* {get: function () { return x.a; }, enumerable: true}
   DefineExport(<<PropAssign("get", Func(<<Return(Xa)>>)), PropAssign("enumerable", TrueKeyword)>>),
   \* {get: function () { return x.a; }}
   DefineExport(<<PropAssign("get", Func(<<Return(Xa)>>))>>),
   \* {enumerable: false, get: function () { return x.a; }}
   DefineExport(<<PropAssign("enumerable", FalseKeyword), PropAssign("get", Func(<<Return(Xa)>>))>>),
   \* {enumerable: true, get: function () { f(); return x.a; }}
   DefineExport(<<PropAssign("enumerable", TrueKeyword),
                  PropAssign("get", Func(<<ExprStmt(Call(Id("f"), <<>>)), Return(Xa)>>))>>),
   \* {enumerable: true, get: function () {}}
   DefineExport(<<PropAssign("enumerable", TrueKeyword), PropAssign("get", Func(<<>>))>>),
   \* {enumerable: true, get: function () { x.a; }}
   DefineExport(<<PropAssign("enumerable", TrueKeyword), PropAssign("get", Func(<<ExprStmt(Xa)>>))>>),
   \* {enumerable: true, get: function () { return; }}
   DefineExport(<<PropAssign("enumerable", TrueKeyword), PropAssign("get", Func(<<ReturnNothing>>))>>),
   \* {enumerable: true, get() { return x.a; }}
   DefineExport(<<PropAssign("enumerable", TrueKeyword), Method("get", <<Return(Xa)>>)>>)}

\* var <name> = require('<specifier>');
VarRequire(name, specifier) == VarStmt(<<VarDecl(Id(name), Require(specifier))>>, "None")

\* Loads that involve the Closure `goog` file or the variable name goog.
GoogLoadStatements ==
  {VarRequire("goog", "google3/javascript/closure/goog"),
   VarRequire("goog", "../javascript/closure/goog"),
   VarRequire("goog", "goog:google3.javascript.closure.goog"),
   VarRequire("goog", "./a"),
   VarRequire("closure_1", "google3/javascript/closure/goog")}

\* Loads of goog: namespaces and of paths.
MarkerLoadStatements ==
  {VarRequire("b_1", "goog:ns.b"),
   ExprStmt(Require("goog:ns.b")),
   VarRequire("d_1", "goog:./dir"),
   VarRequire("dir_1", "./dir"),
   VarRequire("a_1", "./a"),
   ExprStmt(Call(Id("__exportStar"), <<Require("./a"), Id("exports")>>))}

IdiomStatements ==
  CommaStatements \cup GetterStatements \cup GoogLoadStatements \cup MarkerLoadStatements

VisitIdiom == \E node \in IdiomStatements : Visit(node)

NextIdioms == Begin \/ VisitIdiom \/ Header

SpecIdioms == Init /\ [][NextIdioms]_vars

-----------------------------------------------------------------------------
(* Statements at the edges of the rewrite rules: assignments, calls of     *)
(* goog.declareModuleId and statements whose parts look like idioms.       *)

\* Assignments to module.exports and to what only resembles it.
AssignStatements ==
  {sModuleExports,                                                 \* module.exports = X;
   ExprStmt(Bin(Prop(Id("module"), "exports"), "=", Require("./a"))),
                                                                   \* module.exports = require('./a');
   ExprStmt(Bin(Prop(Id("module"), "id"), "=", Id("X"))),          \* module.id = X;
   ExprStmt(Bin(Prop(Id("other"), "exports"), "=", Id("X"))),      \* other.exports = X;
   ExprStmt(Bin(Prop(Id("module"), "exports"), "+=", Id("X"))),    \* module.exports += X;
   ExprStmt(Bin(Prop(Prop(Id("module"), "exports"), "foo"), "=", Id("X"))),
                                                                   \* module.exports.foo = X;
   ExprStmt(Bin(Elem(Id("module"), Str("exports")), "=", Id("X"))),
                                                                   \* module['exports'] = X;
   sExportsAssign}                                                 \* exports = X;

\* <receiver>.<method>(<args>);
MethodCall(receiver, method, args) == ExprStmt(Call(Prop(Id(receiver), method), args))

\* Calls of goog.declareModuleId and of what only resembles it.
ModuleIdStatements ==
  {MethodCall("goog", "declareModuleId", <<Str("my.id")>>),        \* goog.declareModuleId('my.id');
   MethodCall("goog", "declareModuleId", <<Str("other.id")>>),     \* goog.declareModuleId('other.id');
   MethodCall("foo", "declareModuleId", <<Str("my.id")>>),         \* foo.declareModuleId('my.id');
   MethodCall("goog", "provide", <<Str("my.id")>>),                \* goog.provide('my.id');
   MethodCall("goog", "declareModuleId", <<Str("my.id"), Str("b")>>),
                                                                   \* goog.declareModuleId('my.id', 'b');
   MethodCall("goog", "declareModuleId", <<Id("x")>>),             \* goog.declareModuleId(x);
   MethodCall("goog", "declareModuleId", <<>>)}                    \* goog.declareModuleId();

\* Comma expressions whose parts are idioms themselves, and the loads that
\* would share a namespace with them.
NestedIdiomStatements ==
  {ExprStmt(Bin(Bin(Exports("a"), "=", Require("./a")), ",", eB)), \* exports.a = require('./a'), exports.b = 2;
   ExprStmt(Bin(Require("./a"), ",", Str("use strict"))),          \* require('./a'), "use strict";
   ExprStmt(Bin(Bin(Prop(Id("module"), "exports"), "=", Id("X")), ",",
                Call(Prop(Id("goog"), "declareModuleId"), <<Str("my.id")>>))),
                                          \* module.exports = X, goog.declareModuleId('my.id');
   sVarA,                                                          \* var a_1 = require('./a');
   sRequireTslib,                                                  \* require('tslib');
   sUseStrict}                                                     \* "use strict";

RuleStatements == AssignStatements \cup ModuleIdStatements \cup NestedIdiomStatements

VisitRule == \E node \in RuleStatements : Visit(node)

NextRules == Begin \/ VisitRule \/ Header

SpecRules == Init /\ [][NextRules]_vars

-----------------------------------------------------------------------------
(* Several nodes handed to one transformer, one after the other *)

\* The most nodes handed to one transformer, and the longest statement list
\* of one of them.
MaxFiles == 2
MaxFileStmts == 1

Nodes ==
  {SourceFile("/root/proj/m.ts", TRUE), SourceFile("/root/proj/n.ts", TRUE),
   SourceFile("/root/proj/s.js", FALSE), Bundle}

FileHosts == {h \in Hosts : ~h.es5Mode /\ ~h.convertIndexImportShorthand}

FileStatements == {sVoid0, sExportNs, sVarA}

InitFiles ==
  /\ host \in FileHosts
  /\ transformer \in {"commonJsToGoogmodule", "declaration"}
  /\ sf \in Nodes
  /\ modulesManifest = <<>>
  /\ finished = <<>>
  /\ FreshFile

\* googmodule.ts:317-323: a bundle, or a script in JS-transpilation mode, is
\* returned as it is.
ReturnSf ==
  /\ transformer = "commonJsToGoogmodule"
  /\ pc = "start"
  /\ \/ sf.kind # "SourceFile"
     \/ sf.kind = "SourceFile" /\ host.isJsTranspilation /\ ~isModule(sf)
  /\ pc' = "returned"
  /\ finished' = Append(finished, [sf |-> sf, result |-> "unchanged", input |-> <<>>,
                                   stmts |-> <<>>])
  /\ UNCHANGED <<host, transformer, sf, input, stmts, didRewriteDefaultExportsAssignment,
                 moduleVarCounter, namespaceToModuleVarName, modulesManifest, moduleVars,
                 before>>

VisitFileStatement ==
  /\ Len(input) < MaxFileStmts
  /\ \E node \in FileStatements : Visit(node)

\* Mutant: the counter is a variable of the factory, not of one call.
NextFileSharedCounter ==
  /\ pc \in {"done", "returned"}
  /\ Len(finished) < MaxFiles
  /\ sf' \in Nodes
  /\ pc' = "start"
  /\ input' = <<>>
  /\ stmts' = <<>>
  /\ didRewriteDefaultExportsAssignment' = FALSE
  /\ namespaceToModuleVarName' = <<>>
  /\ moduleVars' = <<>>
  /\ before' = <<>>
  /\ UNCHANGED <<host, transformer, modulesManifest, finished, moduleVarCounter>>

\* The transformer is called with the next node: googmodule.ts:312, and the
\* closure variables declared anew at googmodule.ts:329-347 and 788.
NextFile ==
  /\ pc \in {"done", "returned"}
  /\ Len(finished) < MaxFiles
  /\ sf' \in Nodes
  /\ pc' = "start"
  /\ input' = <<>>
  /\ stmts' = <<>>
  /\ didRewriteDefaultExportsAssignment' = FALSE
  /\ moduleVarCounter' = 1
  /\ namespaceToModuleVarName' = <<>>
  /\ moduleVars' = <<>>
  /\ before' = <<>>
  /\ UNCHANGED <<host, transformer, modulesManifest, finished>>

\* clutz.ts:35-39: the declaration transformer does not take bundles.
TransformBundle ==
  /\ transformer = "declaration"
  /\ pc = "start"
  /\ sf.kind = "Bundle"
  /\ pc' = "threw"
  /\ UNCHANGED <<host, transformer, sf, input, stmts, didRewriteDefaultExportsAssignment,
                 moduleVarCounter, namespaceToModuleVarName, modulesManifest, moduleVars,
                 before, finished>>

ImportDeclaration(fileName) == [k |-> "ImportDeclaration", moduleSpecifier |-> Str(fileName)]
\* declare global {...}
GlobalBlock == [k |-> "ModuleDeclaration", name |-> "global"]

\* clutz.ts:40-84: the declaration file with the imports of the Clutz .d.ts
\* files it needs in front and the block of Clutz aliases behind, both as the
\* type checker gives them; the file itself when there is neither.
TransformSourceFile ==
  /\ transformer = "declaration"
  /\ pc = "start"
  /\ sf.kind = "SourceFile"
  /\ \E statements \in {<<>>, <<sFuncDecl>>},
        imports \in {<<>>, <<"a.d.ts">>},
        globalBlock \in {<<>>, <<GlobalBlock>>} :
       /\ input' = statements
       /\ stmts' = [j \in 1..Len(imports) |->
                      Out(ImportDeclaration(imports[j]), "none", FALSE, FALSE, 0)]
                   \o [j \in 1..Len(statements) |-> PassThrough(statements[j], j)]
                   \o [j \in 1..Len(globalBlock) |-> Out(globalBlock[j], "none", FALSE, FALSE, 0)]
       /\ finished' = Append(finished,
            [sf |-> sf,
             result |-> IF imports = <<>> /\ globalBlock = <<>> THEN "unchanged" ELSE "updated",
             input |-> statements, stmts |-> stmts'])
  /\ pc' = "done"
  /\ UNCHANGED <<host, transformer, sf, didRewriteDefaultExportsAssignment,
                 moduleVarCounter, namespaceToModuleVarName, modulesManifest, moduleVars,
                 before>>

NextFiles ==
  \/ Begin \/ ReturnSf \/ VisitFileStatement \/ Header \/ NextFile
  \/ TransformBundle \/ TransformSourceFile

SpecFiles == InitFiles /\ [][NextFiles]_vars

-----------------------------------------------------------------------------
(* C11 - C20 *)

IsCommaExpression(e) ==
  \/ e.k = "BinaryExpression" /\ e.operatorToken = ","
  \/ e.k = "CommaListExpression"

\* The sub-expressions of a comma expression that are no comma expressions
\* themselves.  The leaves of one statement of the pool are pairwise different.
RECURSIVE LeafSet(_)
LeafSet(e) ==
  IF e.k = "BinaryExpression" /\ e.operatorToken = "," THEN LeafSet(e.left) \cup LeafSet(e.right)
  ELSE IF e.k = "CommaListExpression"
  THEN UNION {LeafSet(e.elements[j]) : j \in 1..Len(e.elements)}
  ELSE {e}

\* Where a leaf exports.x = <n> stands in the source text: the leaves of the
\* pool are numbered from left to right.
SourcePos(leaf) ==
  CASE leaf.right.text = "1" -> 1
    [] leaf.right.text = "2" -> 2
    [] leaf.right.text = "3" -> 3

\* C11 (Comma-split): a visited expression statement whose expression is a
\* comma expression (binary tree of any shape, comma list, or a mix) has
\* produced exactly one expression statement per leaf, none of them a comma
\* expression, every leaf once, in the order of the leaves in the source.
C11_CommaSplit ==
  \A i \in 1..Len(input) :
    (input[i].k = "ExpressionStatement" /\ IsCommaExpression(input[i].expression)) =>
      LET outs == EntriesFrom(stmts, i) IN
      /\ Len(outs) = Cardinality(LeafSet(input[i].expression))
      /\ {outs[j].stmt.expression : j \in 1..Len(outs)} = LeafSet(input[i].expression)
      /\ \A j \in 1..Len(outs) :
           /\ outs[j].stmt.k = "ExpressionStatement"
           /\ ~IsCommaExpression(outs[j].stmt.expression)
      /\ \A j1, j2 \in 1..Len(outs) :
           j1 < j2 => SourcePos(outs[j1].stmt.expression) < SourcePos(outs[j2].stmt.expression)

\* Reached: a file with a comma list that holds a binary comma tree, and one
\* with a left-nested tree, processed to the end with three statements each.
C11_Witness ==
  /\ pc = "done"
  /\ Len(input) = 2
  /\ input[1].expression.k = "CommaListExpression"
  /\ input[1].expression.elements[1].k = "BinaryExpression"
  /\ input[2].expression.k = "BinaryExpression"
  /\ input[2].expression.left.k = "BinaryExpression"
  /\ input[2].expression.left.operatorToken = ","
  /\ Len(EntriesFrom(stmts, 1)) = 3 /\ Len(EntriesFrom(stmts, 2)) = 3

\* node is Object.defineProperty(exports, "<name>", {...}), the __esModule
\* marker (an idiom of its own) apart.
IsDefineExportCall(node) ==
  /\ node.k = "ExpressionStatement"
  /\ node.expression.k = "CallExpression"
  /\ node.expression.expression.k = "PropertyAccessExpression"
  /\ node.expression.expression.expression.k = "Identifier"
  /\ node.expression.expression.expression.text = "Object"
  /\ node.expression.expression.name = "defineProperty"
  /\ Len(node.expression.arguments) = 3
  /\ node.expression.arguments[1].k = "Identifier"
  /\ node.expression.arguments[1].text = "exports"
  /\ node.expression.arguments[2].k = "StringLiteral"
  /\ node.expression.arguments[2].text # "__esModule"
  /\ node.expression.arguments[3].k = "ObjectLiteralExpression"

Descriptor(node) == node.expression.arguments[3].properties

EnumerableTrue(node) ==
  \E j \in 1..Len(Descriptor(node)) :
    /\ Descriptor(node)[j].k = "PropertyAssignment"
    /\ Descriptor(node)[j].name = "enumerable"
    /\ Descriptor(node)[j].initializer.k = "TrueKeyword"

\* The bodies of the getters written get: function () {...}
FunctionGetterBodies(node) ==
  {Descriptor(node)[j].initializer.body : j \in
     {j \in 1..Len(Descriptor(node)) :
        /\ Descriptor(node)[j].k = "PropertyAssignment"
        /\ Descriptor(node)[j].name = "get"
        /\ Descriptor(node)[j].initializer.k = "FunctionExpression"}}

\* The bodies of the getters written get() {...}
MethodGetterBodies(node) ==
  {Descriptor(node)[j].body : j \in
     {j \in 1..Len(Descriptor(node)) :
        Descriptor(node)[j].k = "MethodDeclaration" /\ Descriptor(node)[j].name = "get"}}

\* The expressions E of the bodies that are exactly `return E;`
Returned(bodies) ==
  {body[1].expression : body \in
     {b \in bodies : Len(b) = 1 /\ b[1].k = "ReturnStatement" /\ ~IsUndefined(b[1].expression)}}

\* A visited property definition on exports is replaced by `exports.<name> = E`
\* when it is enumerable: true and E is returned by one of `getters`, and is
\* emitted unmodified otherwise.
GetterRule(i, returned) ==
  IF EnumerableTrue(input[i]) /\ returned # {}
  THEN /\ Len(EntriesFrom(stmts, i)) = 1
       /\ \E E \in returned :
            EntriesFrom(stmts, i)[1].stmt =
              [k |-> "ExpressionStatement",
               expression |->
                 [k |-> "BinaryExpression",
                  left |-> [k |-> "PropertyAccessExpression",
                            expression |-> [k |-> "Identifier", text |-> "exports"],
                            name |-> input[i].expression.arguments[2].text],
                  operatorToken |-> "=", right |-> E]]
  ELSE EntriesFrom(stmts, i) = <<[stmt |-> input[i], original |-> "none", range |-> TRUE,
                                  same |-> TRUE, from |-> i]>>

\* C12 as stated (Getter rewrite): a property definition on exports with
\* enumerable: true and a getter, in either notation, whose body is exactly
\* one return of E is replaced by `exports.<name> = E`; every other one is
\* emitted unmodified.
C12_AnyGetterRewritten ==
  \A i \in 1..Len(input) :
    IsDefineExportCall(input[i]) =>
      GetterRule(i, Returned(FunctionGetterBodies(input[i]) \cup MethodGetterBodies(input[i])))

\* C12 amended: a property definition on exports with enumerable: true and a
\* getter written as a function expression (get: function () { return E; })
\* whose body is exactly one return of E is replaced by `exports.<name> = E`;
\* when enumerable is missing or not true, the getter is not a function
\* expression, or its body is not exactly one return of an expression, the
\* call is emitted unmodified.
C12_GetterRewrite ==
  \A i \in 1..Len(input) :
    IsDefineExportCall(input[i]) => GetterRule(i, Returned(FunctionGetterBodies(input[i])))

\* Reached: a file with a rewritten getter definition and one with the flag
\* set to false, left as it was.
C12_Witness ==
  /\ pc = "done"
  /\ \E i1, i2 \in 1..Len(input) :
       /\ IsDefineExportCall(input[i1]) /\ IsDefineExportCall(input[i2])
       /\ EnumerableTrue(input[i1]) /\ Returned(FunctionGetterBodies(input[i1])) # {}
       /\ EntriesFrom(stmts, i1)[1].stmt.expression.k = "BinaryExpression"
       /\ ~EnumerableTrue(input[i2]) /\ Returned(FunctionGetterBodies(input[i2])) # {}
       /\ EntriesFrom(stmts, i2)[1].same

\* The visited statements of the form exports.<n> = require('<p>')
NamespaceReexports ==
  {i \in 1..Len(input) :
     /\ input[i].k = "ExpressionStatement"
     /\ input[i].expression.k = "BinaryExpression"
     /\ LoadedSpecifier(input[i]) # NullString}

\* Where the output holds what input statement i produced.
PositionsFrom(i) == {j \in 1..Len(stmts) : stmts[j].from = i}

\* C13 (Namespace re-export split): a visited exports.<n> = require('<p>') has
\* produced exactly two statements that stand next to each other in the
\* output: a variable statement binding a synthetic identifier that was made
\* once only and that no other statement declares, to goog.require(<ns>) or to
\* the identifier already bound to <ns>, and right after it
\* exports.<n> = <that identifier>.
C13_ReexportSplit ==
  \A i \in NamespaceReexports :
    \E j \in 1..(Len(stmts) - 1) :
      /\ PositionsFrom(i) = {j, j + 1}
      /\ stmts[j].stmt.k = "VariableStatement"
      /\ Len(stmts[j].stmt.declarations) = 1
      /\ LET T == stmts[j].stmt.declarations[1].name IN
           /\ T.k = "Identifier"
           /\ Cardinality({n \in 1..Len(moduleVars) : moduleVars[n] = T.text}) = 1
           /\ \A j2 \in 1..Len(stmts) :
                (j2 # j /\ stmts[j2].stmt.k = "VariableStatement")
                => stmts[j2].stmt.declarations[1].name # T
           /\ stmts[j].stmt.declarations[1].initializer
                = IF LoadedNs(input[i]) \in DOMAIN before[i].map
                  THEN before[i].map[LoadedNs(input[i])]
                  ELSE GoogRequireCall(LoadedNs(input[i]))
           /\ stmts[j + 1].stmt =
                [k |-> "ExpressionStatement",
                 expression |-> [k |-> "BinaryExpression",
                                 left |-> input[i].expression.left,
                                 operatorToken |-> "=", right |-> T]]

\* Reached: a file with two namespace re-exports has been processed; the
\* second one binds the second synthetic identifier to the first.
C13_Witness ==
  /\ pc = "done"
  /\ NamespaceReexports = {1, 2}
  /\ \E j \in 1..Len(stmts) :
       /\ stmts[j].from = 2
       /\ stmts[j].stmt.k = "VariableStatement"
       /\ stmts[j].stmt.declarations[1].name.text = "tsickle_module_2_"
       /\ stmts[j].stmt.declarations[1].initializer.k = "Identifier"

\* An output entry without the position of the input statement it came from.
Replacement(e) == [stmt |-> e.stmt, original |-> e.original, range |-> e.range, same |-> e.same]

\* The replacement list of input statement i.
ReplacementList(i) ==
  [j \in 1..Len(EntriesFrom(stmts, i)) |-> Replacement(EntriesFrom(stmts, i)[j])]

\* The names nextModuleVar can return in one file.
SyntheticNames == {nextModuleVar(n) : n \in 1..(MaxStmts + 1)}

IsSynthetic(e) == e.k = "Identifier" /\ e.text \in SyntheticNames

AnySynthetic == [k |-> "Identifier", text |-> "tsickle_module_N_"]

\* A statement with the number of the synthetic identifier it declares or
\* uses blanked: var <T> = ..., exports.<n> = <T>, __exportStar(<T>, ...).
BlankNumber(s) ==
  IF s.k = "VariableStatement" /\ Len(s.declarations) = 1 /\ IsSynthetic(s.declarations[1].name)
  THEN [s EXCEPT !.declarations = <<[s.declarations[1] EXCEPT !.name = AnySynthetic]>>]
  ELSE IF s.k # "ExpressionStatement" THEN s
  ELSE IF s.expression.k = "BinaryExpression" /\ IsSynthetic(s.expression.right)
  THEN [s EXCEPT !.expression = [s.expression EXCEPT !.right = AnySynthetic]]
  ELSE IF /\ s.expression.k = "CallExpression"
          /\ Len(s.expression.arguments) >= 1
          /\ IsSynthetic(s.expression.arguments[1])
  THEN [s EXCEPT !.expression =
          [s.expression EXCEPT !.arguments = <<AnySynthetic>> \o Tail(s.expression.arguments)]]
  ELSE s

BlankNumbers(list) == [j \in 1..Len(list) |-> [list[j] EXCEPT !.stmt = BlankNumber(list[j].stmt)]]

\* Two visited occurrences of one statement that met the same alias table.
SameStatementSameTable(i1, i2) ==
  /\ i1 < i2
  /\ input[i1] = input[i2]
  /\ before[i1].map = before[i2].map

C15_Isolation ==
  /\ pc = "start" => FreshFile
  /\ transformer = "commonJsToGoogmodule" =>
       \A r1, r2 \in 1..Len(finished) :
         (finished[r1].sf = finished[r2].sf /\ finished[r1].input = finished[r2].input)
         => /\ finished[r1].stmts = finished[r2].stmts
            /\ finished[r1].result = finished[r2].result

\* Reached: the same one-statement module, which needs a synthetic identifier,
\* was processed twice by one transformer and the manifest holds the records
\* of both runs.
C15_Witness ==
  /\ transformer = "commonJsToGoogmodule"
  /\ Len(finished) = 2
  /\ finished[1].sf = finished[2].sf
  /\ finished[1].input = <<sExportNs>> /\ finished[2].input = <<sExportNs>>
  /\ finished[2].result = "updated"
  /\ Len(modulesManifest) = 4

\* C16 as stated (Ledger write protocol): the manifest is written only by the
\* step that ends a module's processing.
C16_WrittenAtTheEnd ==
  [][modulesManifest' # modulesManifest => (pc = "visit" /\ pc' = "done")]_vars

\* C16 amended: the manifest is append-only and is written while a module is
\* processed, not at its end: the step that starts a module appends its one
\* addModule record, before any statement is visited; the visit of a statement
\* appends nothing or the addReferencedModule record of the namespace that
\* statement loads; the header step, the return of an unconverted node and the
\* start on the next node write nothing; what the manifest holds is never
\* removed or changed.
C16_LedgerProtocol ==
  [][/\ Len(modulesManifest') >= Len(modulesManifest)
     /\ SubSeq(modulesManifest', 1, Len(modulesManifest)) = modulesManifest
     /\ LET added == SubSeq(modulesManifest', Len(modulesManifest) + 1, Len(modulesManifest'))
        IN IF pc = "start" /\ pc' = "visit"
           THEN /\ input = <<>> /\ stmts = <<>>
                /\ added = <<[op |-> "addModule", fileName |-> sf.fileName,
                              name |-> pathToModuleName("", sf.fileName)]>>
           ELSE IF pc = "visit" /\ Len(input') = Len(input) + 1
           THEN \/ added = <<>>
                \/ added = <<[op |-> "addReferencedModule", fileName |-> sf.fileName,
                              name |-> LoadedNs(input'[Len(input')])]>>
           ELSE added = <<>>
    ]_vars

\* Reached: two modules have been processed and the manifest holds, for each
\* in turn, its addModule record followed by the record of the namespace it
\* referenced.
C16_Witness ==
  /\ pc = "done"
  /\ Len(finished) = 2
  /\ Len(modulesManifest) = 4
  /\ modulesManifest[1].op = "addModule" /\ modulesManifest[2].op = "addReferencedModule"
  /\ modulesManifest[3].op = "addModule" /\ modulesManifest[4].op = "addReferencedModule"
  /\ modulesManifest[3].fileName # modulesManifest[1].fileName

\* The node is not a single module the transformer converts: a bundle, or a
\* script (no module) in JS-transpilation mode.
PreconditionViolated ==
  \/ sf.kind = "Bundle"
  \/ /\ transformer = "commonJsToGoogmodule"
     /\ sf.kind = "SourceFile" /\ host.isJsTranspilation /\ ~sf.externalModuleIndicator

\* C17 as stated (Structural precondition violations are fatal): processing
\* such a node ends in an error raised to the caller, never in a result.
C17_ViolationsRaise ==
  PreconditionViolated => pc \in {"start", "threw"}

\* C17 amended: a bundle handed to the declaration transformer raises an
\* error; a bundle handed to the module transformer, or a script that is no
\* module in JS-transpilation mode, is returned to the caller as it is: no
\* statement is visited, no header is made and nothing is written to the
\* manifest for it.
C17_ViolationsRaiseOrReturn ==
  PreconditionViolated =>
    IF transformer = "declaration"
    THEN pc \in {"start", "threw"}
    ELSE /\ pc \in {"start", "returned"}
         /\ input = <<>> /\ stmts = <<>>
         /\ \A n \in 1..Len(modulesManifest) :
              sf.kind = "SourceFile" => modulesManifest[n].fileName # sf.fileName
         /\ pc = "returned" =>
              finished[Len(finished)] = [sf |-> sf, result |-> "unchanged",
                                         input |-> <<>>, stmts |-> <<>>]

\* Reached: one module transformer has returned a bundle and then a script
\* as they were.
C17_Witness ==
  /\ transformer = "commonJsToGoogmodule"
  /\ pc = "returned"
  /\ sf.kind = "SourceFile" /\ ~sf.externalModuleIndicator
  /\ Len(finished) = 2
  /\ finished[1].sf = Bundle /\ finished[1].result = "unchanged"

\* C18 (Source metadata survives rewriting): every statement in the output
\* that was made in place of an input statement, the input node itself
\* apart, records that input statement as its original node and carries its
\* text range.
C18_MetadataKept ==
  \A j \in 1..Len(stmts) :
    (stmts[j].from > 0 /\ ~stmts[j].same)
    => stmts[j].original = "statement" /\ stmts[j].range

ClosureGoogNamespace == "google3.javascript.closure.goog"

\* The visited statements of the form var <name> = require('<p>')
VariableLoads ==
  {i \in 1..Len(input) :
     input[i].k = "VariableStatement" /\ LoadedSpecifier(input[i]) # NullString}

\* C19 (Self-loader elision): a visited var goog = require('<p>') whose p
\* resolves to google3.javascript.closure.goog has produced one not-emitted
\* placeholder and no statement, as the first load of that namespace and as a
\* later one; a visited var <name> = require('<p>') with another name or
\* another namespace has produced the one binding var <name> = ..., from
\* goog.require(<ns>) or from the identifier already bound to <ns>.
C19_SelfLoaderElided ==
  \A i \in VariableLoads :
    /\ Len(EntriesFrom(stmts, i)) = 1
    /\ LET s == EntriesFrom(stmts, i)[1].stmt
           ns == LoadedNs(input[i])
       IN IF input[i].declarations[1].name.text = "goog" /\ ns = ClosureGoogNamespace
          THEN s.k = "NotEmittedStatement"
          ELSE /\ s.k = "VariableStatement"
               /\ Len(s.declarations) = 1
               /\ s.declarations[1].name = input[i].declarations[1].name
               /\ s.declarations[1].initializer
                    = IF ns \in DOMAIN before[i].map THEN before[i].map[ns]
                      ELSE GoogRequireCall(ns)

\* Reached: the Closure goog file was first bound to another name and then,
\* through a relative path, loaded as var goog and elided.
C19_Witness ==
  /\ pc = "done"
  /\ VariableLoads = {1, 2}
  /\ input[1].declarations[1].name.text = "closure_1"
  /\ LoadedNs(input[1]) = ClosureGoogNamespace
  /\ input[2].declarations[1].name.text = "goog"
  /\ LoadedSpecifier(input[2]) = "../javascript/closure/goog"
  /\ EntriesFrom(stmts, 2)[1].stmt.k = "NotEmittedStatement"

\* What stands behind the marker of the goog: specifiers of the pool.
MarkedNamespace ==
  [t \in {"goog:ns.b", "goog:./dir", "goog:proj.a", "goog:google3.javascript.closure.goog"} |->
     CASE t = "goog:ns.b" -> "ns.b"
       [] t = "goog:./dir" -> "./dir"
       [] t = "goog:proj.a" -> "proj.a"
       [] t = "goog:google3.javascript.closure.goog" -> "google3.javascript.closure.goog"]

\* The namespace C20 gives a specifier.
ClaimedNamespace(specifier) ==
  IF specifier \in DOMAIN MarkedNamespace THEN MarkedNamespace[specifier]
  ELSE pathToModuleName(sf.fileName,
         IF host.convertIndexImportShorthand THEN resolveModuleName(specifier) ELSE specifier)

\* The visited statements that load a specifier.
Loads == {i \in 1..Len(input) : LoadedSpecifier(input[i]) # NullString}

\* The names handed to modulesManifest.addReferencedModule, in order.
ReferencedNames ==
  LET refs == SelectSeq(modulesManifest, LAMBDA e : e.op = "addReferencedModule")
  IN [n \in 1..Len(refs) |-> refs[n].name]

\* C20 (Marker-prefixed specifiers): the namespace registered for a visited
\* load of goog:X, in the manifest and in the goog.require call made for it,
\* is X itself, not resolved and not mapped, whatever
\* convertIndexImportShorthand is; for any other specifier it is
\* pathToModuleName(file, specifier), of the resolved path when
\* convertIndexImportShorthand is set.
C20_MarkerNamespace ==
  /\ Len(ReferencedNames) = Cardinality(Loads)
  /\ \A i \in Loads :
       /\ ReferencedNames[Cardinality({i2 \in Loads : i2 <= i})]
            = ClaimedNamespace(LoadedSpecifier(input[i]))
       /\ \A j \in PositionsFrom(i) :
            /\ (stmts[j].stmt.k = "VariableStatement"
                /\ stmts[j].stmt.declarations[1].initializer.k = "CallExpression")
               => stmts[j].stmt.declarations[1].initializer
                    = GoogRequireCall(ClaimedNamespace(LoadedSpecifier(input[i])))
            /\ (stmts[j].stmt.k = "ExpressionStatement"
                /\ stmts[j].stmt.expression.k = "CallExpression"
                /\ stmts[j].stmt.expression.expression.k = "PropertyAccessExpression")
               => stmts[j].stmt.expression
                    = GoogRequireCall(ClaimedNamespace(LoadedSpecifier(input[i])))

\* Reached: with convertIndexImportShorthand set, a file that loads goog:./dir
\* and ./dir has been processed: the first is registered as ./dir, the second
\* as the name of the resolved index file.
C20_Witness ==
  /\ pc = "done"
  /\ host.convertIndexImportShorthand
  /\ Len(input) = 2
  /\ LoadedSpecifier(input[1]) = "goog:./dir" /\ LoadedSpecifier(input[2]) = "./dir"
  /\ ReferencedNames = <<"./dir", "proj.dir.index">>

-----------------------------------------------------------------------------
(* The overload merger: ModuleTypeTranslator.getFunctionTypeJSDoc on the   *)
(* signatures declared under one name.  `input` holds the signatures       *)
(* (fnDecls), `stmts` the merged @param tags.                              *)

\* The most signatures of one name.
MaxVariants == 3

\* A parameter of a signature: its name, the Closure text of its declared
\* type, whether it has a question token or an initializer, and whether it
\* has a dot-dot-dot token.
Param(name, type, optional, rest) ==
  [name |-> name, type |-> type, optional |-> optional, rest |-> rest]

\* "...x: number[]" is written "@param {...number} x": the Array<> wrapper is removed.
resolveRestParameterType(type) ==
  CASE type = "!Array<number>" -> "number"
    [] type = "!Array<string>" -> "string"
    [] OTHER -> "?"

\* The signatures a name may be declared with.
Signatures ==
  {<<>>,                                                           \* f()
   <<Param("a", "string", FALSE, FALSE)>>,                         \* f(a: string)
   <<Param("a", "string", FALSE, FALSE), Param("b", "number", FALSE, FALSE)>>,
                                                                   \* f(a: string, b: number)
   <<Param("b", "number", FALSE, FALSE), Param("a", "string", FALSE, FALSE)>>,
                                                                   \* f(b: number, a: string)
   <<Param("b", "number", FALSE, FALSE)>>,                         \* f(b: number)
   <<Param("c", "boolean", FALSE, FALSE)>>,                        \* f(c: boolean)
   <<Param("a", "string", FALSE, FALSE), Param("b", "number", TRUE, FALSE)>>,
                                                                   \* f(a: string, b?: number)
   <<Param("a", "!Array<number>", FALSE, TRUE)>>,                  \* f(...a: number[])
   <<Param("a", "!Array<string>", FALSE, TRUE)>>,                  \* f(...a: string[])
   <<Param("a", "!Array<number>", FALSE, FALSE)>>,                 \* f(a: number[])
   <<Param("a", "string", FALSE, FALSE), Param("b", "!Array<number>", FALSE, TRUE)>>}
                                                                   \* f(a: string, ...b: number[])

\* The tag made for one parameter of one signature.
newTag(param) ==
  [parameterName |-> param.name,
   type |-> IF param.rest THEN resolveRestParameterType(param.type) ELSE param.type,
   optional |-> param.optional,
   restParam |-> param.rest]

\* paramTags[i]: the tags of the parameters found at index i, in the order of
\* the signatures.
paramTags(fnDecls, i) ==
  LET having == SelectSeq(fnDecls, LAMBDA d : Len(d) >= i)
  IN [v \in 1..Len(having) |-> newTag(having[v][i])]

\* The elements of a sequence in the order of their first occurrence.
RECURSIVE Distinct(_)
Distinct(seq) ==
  IF seq = <<>> THEN <<>>
  ELSE IF \E j \in 1..(Len(seq) - 1) : seq[j] = seq[Len(seq)]
  THEN Distinct(SubSeq(seq, 1, Len(seq) - 1))
  ELSE Append(Distinct(SubSeq(seq, 1, Len(seq) - 1)), seq[Len(seq)])

\* Array.join
RECURSIVE Join(_, _)
Join(seq, sep) ==
  IF seq = <<>> THEN ""
  ELSE IF Len(seq) = 1 THEN seq[1]
  ELSE seq[1] \o sep \o Join(Tail(seq), sep)

\* Mutant: a tag merged from a variadic and a fixed parameter is not variadic.
mergedRestParamUnlessFixed(tags) ==
  \A v \in 1..Len(tags) : tags[v].restParam

\* The merged tag is variadic when one of the merged parameters is:
\* (...a: number[]) and (a: number[]) give @param {...number|!Array<number>} a.
mergedRestParam(tags) ==
  \E v \in 1..Len(tags) : tags[v].restParam

\* Mutant: every name is listed, also one that was used before.
mergeAllNames(tags) ==
  [parameterName |-> Join([v \in 1..Len(tags) |-> tags[v].parameterName], "_or_"),
   type |-> Join(Distinct([v \in 1..Len(tags) |-> tags[v].type]), "|"),
   optional |-> ~mergedRestParam(tags) /\ \E v \in 1..Len(tags) : tags[v].optional,
   restParam |-> mergedRestParam(tags)]

\* The tags found at one index merged into one: distinct names joined with
\* _or_, distinct types joined with |.
merge(tags) ==
  [parameterName |-> Join(Distinct([v \in 1..Len(tags) |-> tags[v].parameterName]), "_or_"),
   type |-> Join(Distinct([v \in 1..Len(tags) |-> tags[v].type]), "|"),
   optional |-> ~mergedRestParam(tags) /\ \E v \in 1..Len(tags) : tags[v].optional,
   restParam |-> mergedRestParam(tags)]

\* Mutant: the index appended is counted from 1.
uniqueParameterNameFromOne(name, done, i) ==
  IF \E j \in 1..Len(done) : done[j].parameterName = name
  THEN name \o ToString(i)
  ELSE name

\* A merged name that an earlier position has already gets its index:
\* redirect(url), redirect(status, url), redirect(url, status) give
\* (url_or_status, url_or_status1).
uniqueParameterName(name, done, i) ==
  IF \E j \in 1..Len(done) : done[j].parameterName = name
  THEN name \o ToString(i - 1)
  ELSE name

\* Mutant: only a parameter declared optional is optional.
finishTagDeclaredOptional(tag, done, i, minArgsCount) ==
  [tag EXCEPT !.parameterName = uniqueParameterName(tag.parameterName, done, i)]

\* A parameter that some signature lacks is optional.
finishTag(tag, done, i, minArgsCount) ==
  [tag EXCEPT !.parameterName = uniqueParameterName(tag.parameterName, done, i),
              !.optional = ~tag.restParam /\ (tag.optional \/ i > minArgsCount)]

\* Math.max(...argCounts) and Math.min(...argCounts)
maxArgsCount(fnDecls) ==
  CHOOSE n \in {Len(fnDecls[v]) : v \in 1..Len(fnDecls)} :
    \A v \in 1..Len(fnDecls) : Len(fnDecls[v]) <= n
minArgsCount(fnDecls) ==
  CHOOSE n \in {Len(fnDecls[v]) : v \in 1..Len(fnDecls)} :
    \A v \in 1..Len(fnDecls) : n <= Len(fnDecls[v])

\* The merged tags of the indexes i .. maxArgsCount behind the tags `done`.
RECURSIVE mergeParamTags(_, _, _)
mergeParamTags(fnDecls, i, done) ==
  IF i > maxArgsCount(fnDecls) THEN done
  ELSE mergeParamTags(fnDecls, i + 1,
         Append(done, finishTag(merge(paramTags(fnDecls, i)), done, i, minArgsCount(fnDecls))))

\* Mutant: the merged list is as long as the shortest signature.
getFunctionTypeJSDocShortest(fnDecls) ==
  SubSeq(mergeParamTags(fnDecls, 1, <<>>), 1, minArgsCount(fnDecls))

\* The @param tags of the merged signature; their names are the parameter
\* names of the emitted function.
getFunctionTypeJSDoc(fnDecls) == mergeParamTags(fnDecls, 1, <<>>)

InitOverloads ==
  /\ host = [isJsTranspilation |-> FALSE, es5Mode |-> FALSE, convertIndexImportShorthand |-> FALSE]
  /\ transformer = "moduleTypeTranslator"
  /\ sf = SourceFile("/root/proj/m.ts", TRUE)
  /\ modulesManifest = <<>>
  /\ finished = <<>>
  /\ FreshFile

\* One more signature of the name is declared.
DeclareSignature ==
  /\ transformer = "moduleTypeTranslator"
  /\ pc = "start"
  /\ Len(input) < MaxVariants
  /\ \E fnDecl \in Signatures : input' = Append(input, fnDecl)
  /\ UNCHANGED <<host, transformer, sf, pc, stmts, didRewriteDefaultExportsAssignment,
                 moduleVarCounter, namespaceToModuleVarName, modulesManifest, moduleVars,
                 before, finished>>

\* getFunctionTypeJSDoc(fnDecls) for the signatures declared.
MergeSignatures ==
  /\ transformer = "moduleTypeTranslator"
  /\ pc = "start"
  /\ Len(input) >= 1
  /\ stmts' = getFunctionTypeJSDoc(input)
  /\ pc' = "done"
  /\ UNCHANGED <<host, transformer, sf, input, didRewriteDefaultExportsAssignment,
                 moduleVarCounter, namespaceToModuleVarName, modulesManifest, moduleVars,
                 before, finished>>

NextOverloads == DeclareSignature \/ MergeSignatures

SpecOverloads == InitOverloads /\ [][NextOverloads]_vars

-----------------------------------------------------------------------------
(* The Clutz aliases of a declaration file: generateClutzAliases.  `input` *)
(* holds the exports of the module as the type checker gives them, `stmts` *)
(* the export specifiers of the aliases, `host` the compiler options.      *)

\* The most declarations of one symbol.
MaxDeclarations == 2

\* A declaration of a symbol: whether it lies in the file being transformed,
\* whether it is an export specifier, whether it is marked @internal, and for
\* an export specifier what getExportSpecifierLocalTargetSymbol gives: nothing,
\* a symbol without declarations (declared is FALSE), or a symbol with a
\* declaration here (TRUE) or elsewhere (FALSE) for each entry of the list.
Declaration(here, exportSpecifier, internal, localSymbol) ==
  [here |-> here, isExportSpecifier |-> exportSpecifier, internal |-> internal,
   localSymbol |-> localSymbol]

LocalSymbol(declared, declarations) ==
  [k |-> "Symbol", declared |-> declared, declarations |-> declarations]

ExportDeclarations ==
  {Declaration(TRUE, FALSE, FALSE, Undefined),                     \* export const X;
   Declaration(FALSE, FALSE, FALSE, Undefined),                    \* a declaration in another file
   Declaration(TRUE, FALSE, TRUE, Undefined),                      \* /** @internal */ export const X;
   Declaration(TRUE, TRUE, FALSE, LocalSymbol(TRUE, <<TRUE>>)),    \* import {X} ...; export {X};
   Declaration(TRUE, TRUE, FALSE, LocalSymbol(TRUE, <<FALSE>>)),   \* export {X} from './foo';
   Declaration(TRUE, TRUE, FALSE, LocalSymbol(TRUE, <<TRUE, FALSE>>)),
                                                                   \* a target declared here and elsewhere
   Declaration(TRUE, TRUE, FALSE, LocalSymbol(FALSE, <<>>)),       \* export {unknown};
   Declaration(TRUE, TRUE, FALSE, Undefined)}                      \* no target symbol

\* clutz.ts:143-192: the loop over the declarations ds of an exported symbol.
RECURSIVE isLocalExportBy(_, _)
isLocalExportBy(ds, options) ==
  IF ds = <<>> THEN TRUE
  ELSE IF ~Head(ds).here THEN FALSE
  ELSE IF options.stripInternal /\ Head(ds).internal THEN FALSE
  ELSE IF ~Head(ds).isExportSpecifier THEN TRUE
  ELSE IF IsUndefined(Head(ds).localSymbol) THEN FALSE
  ELSE IF ~Head(ds).localSymbol.declared THEN FALSE
  ELSE IF \E l \in 1..Len(Head(ds).localSymbol.declarations) :
            ~Head(ds).localSymbol.declarations[l] THEN FALSE
  ELSE isLocalExportBy(Tail(ds), options)

\* clutz.ts:132-193: the filter that keeps the exports to alias.
isLocalExport(e, options) ==
  IF ~e.declared THEN FALSE
  ELSE IF e.name = "default" THEN FALSE
  ELSE isLocalExportBy(e.declarations, options)

\* The order of stringCompare on the names of the pool.
NameRank(name) ==
  CASE name = "A" -> 1 [] name = "X" -> 2 [] name = "default" -> 3 [] OTHER -> 4

\* localExports.sort((a, b) => stringCompare(a.name, b.name))
RECURSIVE sortByName(_)
sortByName(es) ==
  IF es = <<>> THEN <<>>
  ELSE LET least == CHOOSE j \in 1..Len(es) :
                      \A j2 \in 1..Len(es) :
                        NameRank(es[j].name) < NameRank(es[j2].name)
                        \/ (NameRank(es[j].name) = NameRank(es[j2].name) /\ j <= j2)
       IN <<es[least]>> \o sortByName(SubSeq(es, 1, least - 1) \o SubSeq(es, least + 1, Len(es)))

\* moduleName.replace(/\./g, '$') for the module proj.m
clutzModuleName == "proj$m"

\* clutz.ts:102-240: the export specifiers `X as module$contents$..._X` of
\* the aliases, in the order of the names; none when nothing is aliased.
generateClutzAliases(moduleExports, options) ==
  LET localExports == sortByName(SelectSeq(moduleExports, LAMBDA e : isLocalExport(e, options)))
  IN [j \in 1..Len(localExports) |->
        [k |-> "ExportSpecifier", propertyName |-> localExports[j].name,
         name |-> "module$contents$" \o clutzModuleName \o "_" \o localExports[j].name]]

\* An exported symbol; declared is FALSE when it has no declarations property.
ExportedSymbol(name, declared, declarations) ==
  [name |-> name, declared |-> declared, declarations |-> declarations]

\* export const A; with one declaration in the file
SymbolA == ExportedSymbol("A", TRUE, <<Declaration(TRUE, FALSE, FALSE, Undefined)>>)

InitAliases ==
  /\ host = [isJsTranspilation |-> FALSE, es5Mode |-> FALSE, convertIndexImportShorthand |-> FALSE,
             stripInternal |-> FALSE]
     \/ host = [isJsTranspilation |-> FALSE, es5Mode |-> FALSE,
                convertIndexImportShorthand |-> FALSE, stripInternal |-> TRUE]
  /\ transformer = "declaration"
  /\ sf = SourceFile("/root/proj/m.ts", TRUE)
  /\ modulesManifest = <<>>
  /\ finished = <<>>
  /\ pc = "start"
  /\ \E name \in {"X", "default"}, declared \in BOOLEAN :
       input \in {<<ExportedSymbol(name, declared, <<>>)>>,
                  <<ExportedSymbol(name, declared, <<>>), SymbolA>>}
  /\ stmts = <<>>
  /\ didRewriteDefaultExportsAssignment = FALSE
  /\ moduleVarCounter = 1
  /\ namespaceToModuleVarName = <<>>
  /\ moduleVars = <<>>
  /\ before = <<>>

\* The first exported symbol has one more declaration.
DeclareExport ==
  /\ transformer = "declaration"
  /\ pc = "start"
  /\ input[1].declared
  /\ Len(input[1].declarations) < MaxDeclarations
  /\ \E d \in ExportDeclarations :
       input' = [input EXCEPT ![1].declarations = Append(@, d)]
  /\ UNCHANGED <<host, transformer, sf, pc, stmts, didRewriteDefaultExportsAssignment,
                 moduleVarCounter, namespaceToModuleVarName, modulesManifest, moduleVars,
                 before, finished>>

\* generateClutzAliases for the exports of the module.
GenerateClutzAliases ==
  /\ transformer = "declaration"
  /\ pc = "start"
  /\ input[1].declared => input[1].declarations # <<>>
  /\ stmts' = generateClutzAliases(input, host)
  /\ pc' = "done"
  /\ UNCHANGED <<host, transformer, sf, input, didRewriteDefaultExportsAssignment,
                 moduleVarCounter, namespaceToModuleVarName, modulesManifest, moduleVars,
                 before, finished>>

NextAliases == DeclareExport \/ GenerateClutzAliases

SpecAliases == InitAliases /\ [][NextAliases]_vars

-----------------------------------------------------------------------------
(* C21 - C30 *)

\* The visited statements that are one binary expression.
BinaryStatements ==
  {i \in 1..Len(input) :
     input[i].k = "ExpressionStatement" /\ input[i].expression.k = "BinaryExpression"}

\* module.exports = X
IsModuleExportsAssignment(e) ==
  /\ e.operatorToken = "="
  /\ e.left = [k |-> "PropertyAccessExpression",
               expression |-> [k |-> "Identifier", text |-> "module"], name |-> "exports"]

\* exports = X, for the right-hand side X of e
ExportsAssignmentOf(e) ==
  [k |-> "ExpressionStatement",
   expression |-> [k |-> "BinaryExpression", left |-> [k |-> "Identifier", text |-> "exports"],
                   operatorToken |-> "=", right |-> e.right]]

\* C21 (module.exports): a visited top-level module.exports = X has been
\* replaced by the single statement exports = X with the same X; a visited
\* assignment with another left side or another operator has produced no new
\* statement exports = X.
C21_ModuleExports ==
  \A i \in BinaryStatements :
    IF IsModuleExportsAssignment(input[i].expression)
    THEN /\ Len(EntriesFrom(stmts, i)) = 1
         /\ EntriesFrom(stmts, i)[1].stmt = ExportsAssignmentOf(input[i].expression)
    ELSE \A j \in PositionsFrom(i) :
           stmts[j].stmt = ExportsAssignmentOf(input[i].expression) => stmts[j].same

\* Reached: module.exports = require('./a') and module.exports += X have both
\* been visited; the first became exports = require('./a'), the second was kept.
C21_Witness ==
  /\ pc = "done"
  /\ Len(input) = 2
  /\ input[1] = ExprStmt(Bin(Prop(Id("module"), "exports"), "=", Require("./a")))
  /\ input[2] = ExprStmt(Bin(Prop(Id("module"), "exports"), "+=", Id("X")))
  /\ \E j \in PositionsFrom(1) : stmts[j].stmt = ExprStmt(Bin(Id("exports"), "=", Require("./a")))
  /\ \E j \in PositionsFrom(2) : stmts[j].same

\* The visited statements that are one call of a method of an identifier.
MethodCallStatements ==
  {i \in 1..Len(input) :
     /\ input[i].k = "ExpressionStatement"
     /\ input[i].expression.k = "CallExpression"
     /\ input[i].expression.expression.k = "PropertyAccessExpression"
     /\ input[i].expression.expression.expression.k = "Identifier"}

\* goog.declareModuleId('<id>') with exactly one string literal
IsDeclareModuleId(call) ==
  /\ call.expression.expression.text = "goog"
  /\ call.expression.name = "declareModuleId"
  /\ Len(call.arguments) = 1
  /\ call.arguments[1].k = "StringLiteral"

\* goog.loadedModules_['<id>'] = {exports: exports, type: goog.ModuleType.GOOG, moduleId: '<id>'};
LoadedModulesWrite(id) ==
  [k |-> "ExpressionStatement",
   expression |->
     [k |-> "BinaryExpression",
      left |-> [k |-> "ElementAccessExpression",
                expression |-> [k |-> "PropertyAccessExpression",
                                expression |-> [k |-> "Identifier", text |-> "goog"],
                                name |-> "loadedModules_"],
                argumentExpression |-> [k |-> "StringLiteral", text |-> id]],
      operatorToken |-> "=",
      right |-> [k |-> "ObjectLiteralExpression",
                 properties |->
                   <<[k |-> "PropertyAssignment", name |-> "exports",
                      initializer |-> [k |-> "Identifier", text |-> "exports"]],
                     [k |-> "PropertyAssignment", name |-> "type",
                      initializer |->
                        [k |-> "PropertyAccessExpression",
                         expression |-> [k |-> "PropertyAccessExpression",
                                         expression |-> [k |-> "Identifier", text |-> "goog"],
                                         name |-> "ModuleType"],
                         name |-> "GOOG"]],
                     [k |-> "PropertyAssignment", name |-> "moduleId",
                      initializer |-> [k |-> "StringLiteral", text |-> id]]>>]]]

\* s writes an entry of goog.loadedModules_
IsLoadedModulesWrite(s) ==
  /\ s.k = "ExpressionStatement"
  /\ s.expression.k = "BinaryExpression"
  /\ s.expression.left.k = "ElementAccessExpression"
  /\ s.expression.left.expression.k = "PropertyAccessExpression"
  /\ s.expression.left.expression.name = "loadedModules_"

\* C22 (Module-id shim): a visited goog.declareModuleId('id') with exactly
\* one string-literal argument has been replaced by the one assignment
\* goog.loadedModules_['id'] = {exports: exports, type: goog.ModuleType.GOOG,
\* moduleId: 'id'}, key and moduleId both the literal; a visited call with
\* another receiver, method name, argument count or a non-literal argument
\* has produced no write to goog.loadedModules_.
C22_ModuleIdShim ==
  \A i \in MethodCallStatements :
    IF IsDeclareModuleId(input[i].expression)
    THEN /\ Len(EntriesFrom(stmts, i)) = 1
         /\ EntriesFrom(stmts, i)[1].stmt = LoadedModulesWrite(input[i].expression.arguments[1].text)
    ELSE \A j \in PositionsFrom(i) : ~IsLoadedModulesWrite(stmts[j].stmt)

\* Reached: goog.declareModuleId('other.id') and foo.declareModuleId('my.id')
\* have been visited; only the first became a write, keyed by other.id.
C22_Witness ==
  /\ pc = "done"
  /\ Len(input) = 2
  /\ input[1] = MethodCall("goog", "declareModuleId", <<Str("other.id")>>)
  /\ input[2] = MethodCall("foo", "declareModuleId", <<Str("my.id")>>)
  /\ \E j \in PositionsFrom(1) : stmts[j].stmt = LoadedModulesWrite("other.id")
  /\ \E j \in PositionsFrom(2) : stmts[j].same

\* "use strict";
UseStrictDirective ==
  [k |-> "ExpressionStatement", expression |-> [k |-> "StringLiteral", text |-> "use strict"]]

\* Object.defineProperty(exports, "__esModule", { value: true });
EsModuleMarker ==
  [k |-> "ExpressionStatement",
   expression |->
     [k |-> "CallExpression",
      expression |-> [k |-> "PropertyAccessExpression",
                      expression |-> [k |-> "Identifier", text |-> "Object"],
                      name |-> "defineProperty"],
      arguments |-> <<[k |-> "Identifier", text |-> "exports"],
                      [k |-> "StringLiteral", text |-> "__esModule"],
                      [k |-> "ObjectLiteralExpression",
                       properties |-> <<[k |-> "PropertyAssignment", name |-> "value",
                                         initializer |-> [k |-> "TrueKeyword"]]>>]>>]]

\* The visited statements that are one of the two markers.
Markers == {i \in 1..Len(input) : input[i] \in {UseStrictDirective, EsModuleMarker}}

\* C23 (Erased markers): every visited top-level "use strict" directive and
\* every visited Object.defineProperty(exports, "__esModule", { value: true }),
\* at whatever position and however often, has produced exactly one
\* not-emitted placeholder, which stands after everything produced from
\* earlier statements and before everything produced from later ones; no
\* statement produced from a marker is emitted.
C23_MarkersErased ==
  \A i \in Markers :
    /\ Cardinality(PositionsFrom(i)) = 1
    /\ \A j \in PositionsFrom(i) :
         /\ stmts[j].stmt.k = "NotEmittedStatement"
         /\ \A j2 \in 1..Len(stmts) :
              /\ (stmts[j2].from > 0 /\ stmts[j2].from < i) => j2 < j
              /\ stmts[j2].from > i => j < j2

\* Reached: a file with a "use strict" directive that follows the
\* default-exports initializer has been processed.
C23_Witness ==
  /\ pc = "done"
  /\ Len(input) >= 2
  /\ input[1] = ExprStmt(Bin(Exports("a"), "=", Bin(Exports("b"), "=", Void0)))
  /\ input[2] = UseStrictDirective
  /\ stmts[2].stmt.k = "NotEmittedStatement"

\* The signatures were merged.
Merged == transformer = "moduleTypeTranslator" /\ pc = "done"

\* The signatures that have a parameter at index i.
VariantsAt(i) == {v \in 1..Len(input) : Len(input[v]) >= i}

\* The largest parameter count among the signatures.
MostParameters ==
  CHOOSE n \in 0..10 :
    /\ \E v \in 1..Len(input) : Len(input[v]) = n
    /\ \A v \in 1..Len(input) : Len(input[v]) <= n

\* A merged parameter that may be left out: marked optional, or variadic.
MayBeOmitted(tag) == tag.optional \/ tag.restParam

JoinedNames(i) ==
  LET having == SelectSeq(input, LAMBDA d : Len(d) >= i)
  IN Join(Distinct([v \in 1..Len(having) |-> having[v][i].name]), "_or_")

\* The merged parameter names.
ParameterNames == [i \in 1..Len(stmts) |-> stmts[i].parameterName]

NoTwoEqualNames ==
  \A i1, i2 \in 1..Len(stmts) : ParameterNames[i1] = ParameterNames[i2] => i1 = i2

VariadicAt(v, i) == Len(input[v]) >= i /\ input[v][i].rest
FixedAt(v, i) == Len(input[v]) >= i /\ ~input[v][i].rest

\* The members of the union type of a merged parameter.
UnionMembers(tag) ==
  {t \in {"string", "number", "boolean", "?", "!Array<number>", "!Array<string>"} :
     \/ tag.type = t
     \/ \E rest \in {"string", "number", "boolean", "?", "!Array<number>", "!Array<string>",
                     "string|number", "number|string"} :
          tag.type = t \o "|" \o rest \/ tag.type = rest \o "|" \o t}

\* C26 (Overload merge, variadic conflict): a parameter that is variadic in
\* one signature and fixed at the same index in another is not variadic in
\* the merged annotation but optional, its type a union that includes the
\* array type; a parameter that is variadic in every signature that has the
\* index is variadic in the merged annotation, its type without the array
\* wrapper.
C26_VariadicConflict ==
  Merged =>
    \A i \in 1..Len(stmts) :
      /\ ((\E v \in 1..Len(input) : VariadicAt(v, i)) /\ (\E v \in 1..Len(input) : FixedAt(v, i)))
         => /\ ~stmts[i].restParam
            /\ stmts[i].optional
            /\ \A v \in 1..Len(input) :
                 VariadicAt(v, i) => input[v][i].type \in UnionMembers(stmts[i])
      /\ ((\E v \in 1..Len(input) : VariadicAt(v, i)) /\ ~(\E v \in 1..Len(input) : FixedAt(v, i)))
         => /\ stmts[i].restParam
            /\ \A v \in 1..Len(input) :
                 VariadicAt(v, i) =>
                   /\ input[v][i].type \notin UnionMembers(stmts[i])
                   /\ (input[v][i].type = "!Array<number>" => "number" \in UnionMembers(stmts[i]))
                   /\ (input[v][i].type = "!Array<string>" => "string" \in UnionMembers(stmts[i]))

\* The aliases were generated.
Aliased == transformer = "declaration" /\ pc = "done"

\* The exported symbol has an alias.
HasAlias(e) == \E j \in 1..Len(stmts) : stmts[j].propertyName = e.name

\* Every declaration of the symbol, and every declaration of the local
\* target of a declaration that is an export specifier, lies in the file.
DeclaredHereOnly(e) ==
  /\ e.declared
  /\ \A d \in 1..Len(e.declarations) :
       /\ e.declarations[d].here
       /\ (e.declarations[d].isExportSpecifier /\ ~IsUndefined(e.declarations[d].localSymbol))
          => \A l \in 1..Len(e.declarations[d].localSymbol.declarations) :
               e.declarations[d].localSymbol.declarations[l]

\* C27 (Conservative aliasing): an exported symbol has an alias only when it
\* is not the default export and every one of its declarations (and, for an
\* export specifier, every declaration of its local target symbol) lies in
\* the file being transformed; a symbol with a declaration in another file
\* has none, in whatever order its declarations are listed.
C27_ConservativeAliasing ==
  Aliased =>
    \A x \in 1..Len(input) :
      HasAlias(input[x]) => input[x].name # "default" /\ DeclaredHereOnly(input[x])

\* The namespaces for which a statement holds a goog.require call:
\* goog.require('ns'); or var x = goog.require('ns');
GoogRequired(s) ==
  IF s.k = "ExpressionStatement"
  THEN IF /\ s.expression.k = "CallExpression"
          /\ s.expression.expression = [k |-> "PropertyAccessExpression",
                                        expression |-> [k |-> "Identifier", text |-> "goog"],
                                        name |-> "require"]
          /\ Len(s.expression.arguments) = 1
          /\ s.expression.arguments[1].k = "StringLiteral"
       THEN {s.expression.arguments[1].text} ELSE {}
  ELSE IF s.k = "VariableStatement"
  THEN {s.declarations[d].initializer.arguments[1].text :
          d \in {d2 \in 1..Len(s.declarations) :
                   \E ns \in {"proj.a", "proj.dir", "proj.dir.index", "tslib",
                              "google3.javascript.closure.goog"} :
                     s.declarations[d2].initializer = GoogRequireCall(ns)}}
  ELSE {}

\* The names recorded in the manifest as referenced by the file.
ReferencedByFile ==
  {modulesManifest[r].name :
     r \in {r2 \in 1..Len(modulesManifest) :
              /\ modulesManifest[r2].op = "addReferencedModule"
              /\ modulesManifest[r2].fileName = sf.fileName}}

\* C28 (Ledger coverage): when a module has been processed, every namespace
\* for which its output holds a goog.require call, the header's
\* goog.require('tslib') and the rewritten require('tslib') of a
\* JS-transpilation input included, is recorded in the modules manifest as
\* referenced by that file.
C28_LedgerCoverage ==
  pc = "done" =>
    \A j \in 1..Len(stmts) : GoogRequired(stmts[j].stmt) \subseteq ReferencedByFile

\* The numbers of the synthetic identifiers the output declares.
DeclaredNumbers == {DeclaredNumber(j) : j \in 1..Len(stmts)} \ {0}

\* By how much the counter moved while input statement i was visited.
CounterAdvance(i) ==
  (IF i < Len(before) THEN before[i + 1].counter ELSE moduleVarCounter) - before[i].counter

\* The statements for which a synthetic name is made: exports.<n> = <call>
\* and the calls of __exportStar and __export.
HasNameMade(node) ==
  /\ node.k = "ExpressionStatement"
  /\ \/ /\ node.expression.k = "BinaryExpression"
        /\ node.expression.operatorToken = "="
        /\ node.expression.left.k = "PropertyAccessExpression"
        /\ node.expression.left.expression.k = "Identifier"
        /\ node.expression.left.expression.text = "exports"
        /\ node.expression.right.k = "CallExpression"
     \/ /\ node.expression.k = "CallExpression"
        /\ node.expression.expression.k = "Identifier"
        /\ node.expression.expression.text \in {"__exportStar", "__export"}

\* C29 (No numbering gaps), as stated: the counter has advanced once per
\* synthetic identifier the output declares, and the identifiers in the output
\* of a processed module are numbered 1, 2, ..., k without a gap.
C29_NoGaps ==
  pc = "done" =>
    /\ moduleVarCounter = Cardinality(DeclaredNumbers) + 1
    /\ DeclaredNumbers = 1..Cardinality(DeclaredNumbers)

\* C29, amended: the counter advances once per name made, which is for every
\* exports.<n> = <call> and every __exportStar or __export call, before the
\* call is known to be a require call; the identifiers in the output carry
\* numbers out of 1..k, k the number of names made, in increasing order, and
\* a number is skipped exactly for a statement that had a name made and does
\* not load a module by a require call with a string literal.
C29_GapsWhereNoRequire ==
  pc = "done" =>
    /\ moduleVarCounter = Len(moduleVars) + 1
    /\ DeclaredNumbers \subseteq 1..Len(moduleVars)
    /\ \A j1, j2 \in 1..Len(stmts) :
         (j1 < j2 /\ DeclaredNumber(j1) > 0 /\ DeclaredNumber(j2) > 0)
         => DeclaredNumber(j1) < DeclaredNumber(j2)
    /\ \A i \in 1..Len(input) :
         CounterAdvance(i) = (IF HasNameMade(input[i]) THEN 1 ELSE 0)
    /\ \A n \in 1..Len(moduleVars) :
         n \notin DeclaredNumbers
         <=> \E i \in 1..Len(input) :
               /\ before[i].counter = n
               /\ CounterAdvance(i) = 1
               /\ LoadedSpecifier(input[i]) = NullString

\* Reached: exports.n = f() took number 1 and emitted nothing, and the
\* namespace re-export after it is declared as tsickle_module_2_.
C29_Witness ==
  /\ pc = "done"
  /\ Len(input) = 2
  /\ input[1] = sExportCall
  /\ CounterAdvance(1) = 1
  /\ DeclaredNumbers = {2}

\* The per-module state after input statement i was visited.
StateAfter(i) ==
  IF i < Len(before) THEN before[i + 1]
  ELSE [did |-> didRewriteDefaultExportsAssignment, counter |-> moduleVarCounter,
        map |-> namespaceToModuleVarName]

\* The statements of the output that input statement i produced.
StatementsFrom(i) == {EntriesFrom(stmts, i)[j].stmt : j \in 1..Len(EntriesFrom(stmts, i))}

\* The visited statements whose expression is a comma expression.
CommaSplit ==
  {i \in 1..Len(input) :
     input[i].k = "ExpressionStatement" /\ IsCommaExpression(input[i].expression)}

\* The visited statements module.exports = X.
ModuleExports == {i \in BinaryStatements : IsModuleExportsAssignment(input[i].expression)}

\* The records of the manifest that say the file references a module.
ReferencedRecords ==
  {r \in 1..Len(modulesManifest) : modulesManifest[r].op = "addReferencedModule"}

\* C30 (Single-rule rewriting): a visited statement has been handled by the
\* first matching rule only and what that rule produced is in the output as
\* produced: a marker is one placeholder; module.exports = X is exports = X
\* with X untouched, a require call included; a comma expression is its parts
\* as statements, untouched even where a part alone would match a rule (a
\* require call, exports.a = require('p'), "use strict", module.exports = X,
\* goog.declareModuleId); none of these changes the alias table, the counter
\* or the erased-once flag, and the manifest holds at most one reference
\* record per statement that is itself a load.
C30_SingleRule ==
  /\ \A i \in Markers :
       /\ StatementsFrom(i) = {NotEmittedStatement}
       /\ StateAfter(i) = before[i]
  /\ \A i \in ModuleExports :
       /\ StatementsFrom(i) = {ExportsAssignmentOf(input[i].expression)}
       /\ StateAfter(i) = before[i]
  /\ \A i \in CommaSplit :
       /\ StatementsFrom(i) = {ExprStmt(leaf) : leaf \in LeafSet(input[i].expression)}
       /\ StateAfter(i) = before[i]
  /\ \A i \in 1..Len(input) :
       LoadedSpecifier(input[i]) = NullString => StateAfter(i).map = before[i].map
  /\ Cardinality(ReferencedRecords)
       <= Cardinality({i \in 1..Len(input) : LoadedSpecifier(input[i]) # NullString})

\* Reached: exports.a = require('./a'), exports.b = 2 and
\* module.exports = require('./a') have been processed; both require calls
\* are in the output and the alias table is empty.
C30_Witness ==
  /\ pc = "done"
  /\ Len(input) = 2
  /\ 1 \in CommaSplit
  /\ 2 \in ModuleExports
  /\ ExprStmt(Bin(Exports("a"), "=", Require("./a"))) \in StatementsFrom(1)
  /\ StatementsFrom(2) = {ExprStmt(Bin(Id("exports"), "=", Require("./a")))}
  /\ DOMAIN namespaceToModuleVarName = {}
  /\ ReferencedRecords = {}

====
